---- MODULE Spec2Model ----
(***************************************************************************)
(* Model of the form-translator backend: the history analysis script      *)
(* (src/count_unique_days.py) with its timestamp parser and session        *)
(* builder, the history sheet service (src/sheets_service.py) and the      *)
(* request handlers that use it (src/routes/api_routes.py).                *)
(*                                                                         *)
(* Python values are modelled as follows.                                  *)
(*   str        a sequence of one-character strings                        *)
(*   datetime   [kind, ord, sec, us, aware, off]: proleptic day ordinal,   *)
(*              second of the day, microsecond, tz-awareness, utc offset   *)
(*              in seconds (0 when naive)                                  *)
(*   timedelta  [days, seconds, microseconds], normalised as Python does   *)
(*   tuple      a TLA+ tuple (x[0] in the code is x[1] here)               *)
(*   a call     [kind |-> "return", value |-> v] or                        *)
(*              [kind |-> "raise", exc |-> name]                           *)
(***************************************************************************)
EXTENDS Integers, Sequences, FiniteSets, TLC

\* the analysis script and the record store it reads
VARIABLES pc, history_data, idx, unique_dates, parse_errors,
          translations_with_datetime, sessions, error,
          store, values, report

\* the /star request handlers and the A:B range of the history sheet
VARIABLES stars_values, stars_values0, star_req

analysis_vars == <<pc, history_data, idx, unique_dates, parse_errors,
                   translations_with_datetime, sessions, error,
                   values, report>>

star_vars == <<stars_values, stars_values0, star_req>>

\* the reporter of the analysis script: the sessions grouped by date, the
\* rows of the session breakdown and the session statistics it has printed
VARIABLES sessions_by_date, breakdown, statistics

reporter_vars == <<sessions_by_date, breakdown, statistics>>

\* a request to /translate or /history and its response
VARIABLES request_body, response, route_pc

route_vars == <<request_body, response, route_pc>>

\* the global sheets service of src/sheets_service.py, the instances of
\* SheetsService, the background initializer and the callers of
\* get_sheets_service
VARIABLES sheets_service, instances, init_status, initializer, callers

service_vars == <<sheets_service, instances, init_status, initializer, callers>>

vars == <<analysis_vars, reporter_vars, store, star_vars, route_vars,
          service_vars>>

\* what the analysis leaves alone
non_analysis_vars == <<star_vars, route_vars, service_vars>>

\* what the /star handlers leave alone
non_star_vars == <<analysis_vars, reporter_vars, store, route_vars,
                   service_vars>>

\* what the /translate and /history handlers leave alone
non_route_vars == <<pc, idx, unique_dates, parse_errors,
                    translations_with_datetime, sessions, error, report,
                    reporter_vars, store, star_vars, service_vars>>

\* what the initializer and get_sheets_service leave alone
non_service_vars == <<analysis_vars, reporter_vars, store, star_vars,
                      route_vars>>

\* ------------------------------------------------------------------------
\* Python values
\* ------------------------------------------------------------------------
None == [kind |-> "None"]

IsNone(v) == v.kind = "None"

Return(v) == [kind |-> "return", value |-> v]

Raise(e) == [kind |-> "raise", exc |-> e]

SecondsPerDay == 24 * 60 * 60

MicrosPerSecond == 1000 * 1000

\* ------------------------------------------------------------------------
\* datetime arithmetic (standard library, as used by the script)
\* ------------------------------------------------------------------------
IsLeap(y) == (y % 4 = 0) /\ ((y % 100 # 0) \/ (y % 400 = 0))

DaysInMonth(y, m) ==
  IF m = 2 THEN (IF IsLeap(y) THEN 29 ELSE 28)
  ELSE IF m \in {4, 6, 9, 11} THEN 30 ELSE 31

DaysBeforeYear(y) ==
  (y - 1) * 365 + ((y - 1) \div 4) - ((y - 1) \div 100) + ((y - 1) \div 400)

RECURSIVE DaysBeforeMonth(_, _)
DaysBeforeMonth(y, m) ==
  IF m = 1 THEN 0 ELSE DaysBeforeMonth(y, m - 1) + DaysInMonth(y, m - 1)

\* date.toordinal(): 1 for 0001-01-01
Ymd2Ord(y, m, d) == DaysBeforeYear(y) + DaysBeforeMonth(y, m) + d

\* datetime(y, mo, d, h, mi, s, us, tzinfo)
MkDatetime(y, mo, d, h, mi, s, us, aware, off) ==
  [kind |-> "datetime", ord |-> Ymd2Ord(y, mo, d), sec |-> h * 3600 + mi * 60 + s,
   us |-> us, aware |-> aware, off |-> off]

\* The instant a datetime is compared by: wall time for a naive value, UTC for
\* an aware one; <<day ordinal, second of day, microsecond>>.
DtKey(dt) ==
  LET s == dt.sec - dt.off
  IN  <<dt.ord + (s \div SecondsPerDay), s % SecondsPerDay, dt.us>>

\* datetime.__lt__ / __le__ raise TypeError between naive and aware values
Comparable(a, b) == a.aware = b.aware

LexLess(k1, k2) ==
  \/ k1[1] < k2[1]
  \/ k1[1] = k2[1] /\ k1[2] < k2[2]
  \/ k1[1] = k2[1] /\ k1[2] = k2[2] /\ k1[3] < k2[3]

DtLess(a, b) == LexLess(DtKey(a), DtKey(b))

DtLeq(a, b) == ~DtLess(b, a)

\* datetime.date(): the calendar date of the wall time
DateOf(dt) == [kind |-> "date", ord |-> dt.ord]

\* a - b for two datetimes of the same awareness: a normalised timedelta
DtSub(a, b) ==
  LET ka == DtKey(a)
      kb == DtKey(b)
      us == ka[3] - kb[3]
      s  == (ka[2] - kb[2]) + (us \div MicrosPerSecond)
  IN  [days |-> (ka[1] - kb[1]) + (s \div SecondsPerDay),
       seconds |-> s % SecondsPerDay,
       microseconds |-> us % MicrosPerSecond]

\* timedelta(minutes=m)
TimedeltaMinutes(m) ==
  [days |-> (m * 60) \div SecondsPerDay, seconds |-> (m * 60) % SecondsPerDay,
   microseconds |-> 0]

\* timedelta.__le__
TdLeq(x, y) ==
  ~LexLess(<<y.days, y.seconds, y.microseconds>>, <<x.days, x.seconds, x.microseconds>>)

\* ------------------------------------------------------------------------
\* sorted(pairs, key=lambda x: x[0]): a stable sort on the datetime of each
\* pair, which raises TypeError when it has to compare a naive with an aware
\* datetime (any list of two or more elements that mixes them).
\* ------------------------------------------------------------------------
RECURSIVE InsertByTime(_, _)
InsertByTime(x, s) ==
  IF s = <<>> THEN <<x>>
  ELSE IF DtLess(x[1], s[1][1]) THEN <<x>> \o s
  ELSE <<s[1]>> \o InsertByTime(x, Tail(s))

RECURSIVE SortAcc(_, _)
SortAcc(acc, s) ==
  IF s = <<>> THEN acc ELSE SortAcc(InsertByTime(s[1], acc), Tail(s))

SortedByTime(s) == SortAcc(<<>>, s)

MixesAwareness(s) ==
  \E i, j \in 1..Len(s) : ~Comparable(s[i][1], s[j][1])

\* ------------------------------------------------------------------------
\* The session builder
\* ------------------------------------------------------------------------
\* the threshold the analysis passes to the builder
SESSION_GAP_MINUTES == 60

\* [record for _, record in session_translations]
RECURSIVE RecordsOf(_)
RecordsOf(s) == IF s = <<>> THEN <<>> ELSE <<s[1][2]>> \o RecordsOf(Tail(s))

\* create_session_from_translations with the sort reversed (reverse=True)
create_session_Reversed(session_translations) ==
  IF session_translations = <<>> THEN None
  ELSE LET sorted_trans == SortedByTime(session_translations)
           start_time   == sorted_trans[Len(sorted_trans)][1]
           end_time     == sorted_trans[1][1]
           records      == RecordsOf(session_translations)
       IN  [kind |-> "session",
            date |-> DateOf(start_time),
            start_time |-> start_time,
            end_time |-> end_time,
            translations |-> records,
            count |-> Len(records)]

create_session_from_translations(session_translations) ==
  IF session_translations = <<>> THEN None
  ELSE LET sorted_trans == SortedByTime(session_translations)
           start_time   == sorted_trans[1][1]
           end_time     == sorted_trans[Len(sorted_trans)][1]
           records      == RecordsOf(session_translations)
       IN  [kind |-> "session",
            date |-> DateOf(start_time),
            start_time |-> start_time,
            end_time |-> end_time,
            translations |-> records,
            count |-> Len(records)]

\* SameSession with the threshold taken in hours instead of minutes
SameSession_Hours(time_gap, session_gap_minutes) ==
  TdLeq(time_gap, TimedeltaMinutes(session_gap_minutes * 60))

\* SameSession with an exclusive threshold: time_gap < timedelta(minutes=...)
SameSession_Strict(time_gap, session_gap_minutes) ==
  TdLeq(time_gap, TimedeltaMinutes(session_gap_minutes))
  /\ time_gap # TimedeltaMinutes(session_gap_minutes)

\* the threshold test of the loop: time_gap <= timedelta(minutes=session_gap_minutes)
SameSession(time_gap, session_gap_minutes) ==
  TdLeq(time_gap, TimedeltaMinutes(session_gap_minutes))

\* GroupLoopBody measuring the gap from the first event of the current
\* session (current_session[0][0]) instead of the last
GroupLoopBody_FromStart(st, pair, session_gap_minutes) ==
  IF st.current_session = <<>>
  THEN [st EXCEPT !.current_session = <<pair>>]
  ELSE LET prev_dt  == st.current_session[1][1]
           time_gap == DtSub(pair[1], prev_dt)
       IN  IF SameSession(time_gap, session_gap_minutes)
           THEN [st EXCEPT !.current_session = Append(@, pair)]
           ELSE [sessions |-> Append(st.sessions,
                                     create_session_from_translations(st.current_session)),
                 current_session |-> <<pair>>]

\* one iteration of the loop over sorted_translations; st holds the loop's
\* two locals, sessions and current_session
GroupLoopBody(st, pair, session_gap_minutes) ==
  IF st.current_session = <<>>
  THEN [st EXCEPT !.current_session = <<pair>>]
  ELSE LET prev_dt  == st.current_session[Len(st.current_session)][1]
           time_gap == DtSub(pair[1], prev_dt)
       IN  IF SameSession(time_gap, session_gap_minutes)
           THEN [st EXCEPT !.current_session = Append(@, pair)]
           ELSE [sessions |-> Append(st.sessions,
                                     create_session_from_translations(st.current_session)),
                 current_session |-> <<pair>>]

RECURSIVE GroupLoop(_, _, _)
GroupLoop(st, rest, session_gap_minutes) ==
  IF rest = <<>> THEN st
  ELSE GroupLoop(GroupLoopBody(st, rest[1], session_gap_minutes), Tail(rest),
                 session_gap_minutes)

\* GroupFlush without the final append: the last session is forgotten
GroupFlush_Forget(st) == st.sessions

\* GroupFlush putting the last session first (sessions.insert(0, session))
GroupFlush_Prepend(st) ==
  IF st.current_session # <<>>
  THEN <<create_session_from_translations(st.current_session)>> \o st.sessions
  ELSE st.sessions

\* "Don't forget the last session"
GroupFlush(st) ==
  IF st.current_session # <<>>
  THEN Append(st.sessions, create_session_from_translations(st.current_session))
  ELSE st.sessions

\* SortTranslations without the sort: the list is scanned in input order
SortTranslations_Unsorted(translations) ==
  IF Len(translations) >= 2 /\ MixesAwareness(translations)
  THEN Raise("TypeError")
  ELSE Return(translations)

\* sorted(translations_with_datetime, key=lambda x: x[0])
SortTranslations(translations) ==
  IF Len(translations) >= 2 /\ MixesAwareness(translations)
  THEN Raise("TypeError")
  ELSE Return(SortedByTime(translations))

\* the builder without the guard for an empty list, taking the first event
\* of the sorted list as the start of the first session
group_translations_NoEmptyGuard(translations, session_gap_minutes) ==
  IF translations = <<>> THEN Raise("IndexError")
  ELSE LET sorted_translations == SortTranslations(translations)
       IN  IF sorted_translations.kind = "raise" THEN sorted_translations
           ELSE Return(GroupFlush(
                  GroupLoop([sessions |-> <<>>, current_session |-> <<>>],
                            sorted_translations.value, session_gap_minutes)))

group_translations_by_sessions(translations, session_gap_minutes) ==
  IF translations = <<>> THEN Return(<<>>)
  ELSE LET sorted_translations == SortTranslations(translations)
       IN  IF sorted_translations.kind = "raise" THEN sorted_translations
           ELSE Return(GroupFlush(
                  GroupLoop([sessions |-> <<>>, current_session |-> <<>>],
                            sorted_translations.value, session_gap_minutes)))

\* ------------------------------------------------------------------------
\* Strings
\* ------------------------------------------------------------------------
DigitChars == <<"0", "1", "2", "3", "4", "5", "6", "7", "8", "9">>

IsDigit(c) == \E n \in 1..10 : DigitChars[n] = c

DigitVal(c) == (CHOOSE n \in 1..10 : DigitChars[n] = c) - 1

IsSpaceChar(c) == c \in {" ", "\t", "\n"}

RECURSIVE LStrip(_)
LStrip(s) ==
  IF s # <<>> /\ IsSpaceChar(s[1]) THEN LStrip(Tail(s)) ELSE s

RECURSIVE RStrip(_)
RStrip(s) ==
  IF s # <<>> /\ IsSpaceChar(s[Len(s)]) THEN RStrip(SubSeq(s, 1, Len(s) - 1)) ELSE s

\* str.strip()
Strip(s) == RStrip(LStrip(s))

\* str.replace('Z', '+00:00')
RECURSIVE ReplaceZ(_)
ReplaceZ(s) ==
  IF s = <<>> THEN <<>>
  ELSE (IF s[1] = "Z" THEN <<"+", "0", "0", ":", "0", "0">> ELSE <<s[1]>>)
       \o ReplaceZ(Tail(s))

\* the number of digits of s from position pos on, at most max
RECURSIVE DigitRun(_, _, _)
DigitRun(s, pos, max) ==
  IF max = 0 \/ pos > Len(s) \/ ~IsDigit(s[pos]) THEN 0
  ELSE 1 + DigitRun(s, pos + 1, max - 1)

\* the number of whitespace characters of s from position pos on
RECURSIVE SpaceRun(_, _)
SpaceRun(s, pos) ==
  IF pos > Len(s) \/ ~IsSpaceChar(s[pos]) THEN 0 ELSE 1 + SpaceRun(s, pos + 1)

\* int() of the n digits of s from position pos on
RECURSIVE IntAt(_, _, _)
IntAt(s, pos, n) ==
  IF n = 0 THEN 0
  ELSE IntAt(s, pos, n - 1) * 10 + DigitVal(s[pos + n - 1])

\* str(n) of a natural number
RECURSIVE IntToStr(_)
IntToStr(n) ==
  IF n < 10 THEN <<DigitChars[n + 1]>>
  ELSE IntToStr(n \div 10) \o <<DigitChars[(n % 10) + 1]>>

\* ------------------------------------------------------------------------
\* datetime.strptime(s, fmt) for the directives the script uses.  A format is
\* a sequence of directives ("%m", "%d", "%Y", "%H", "%M", "%S") and literal
\* characters; a blank in the format matches one or more whitespace
\* characters; a numeric directive takes one or two digits (%Y exactly four)
\* within its range; the whole string must be consumed; the fields must name
\* a real date.  Any failure is a ValueError.
\* ------------------------------------------------------------------------
FMT_MDY_HMS == <<"%m", "/", "%d", "/", "%Y", " ", "%H", ":", "%M", ":", "%S">>

FMT_MDY == <<"%m", "/", "%d", "/", "%Y">>

FMT_YMD_HMS == <<"%Y", "-", "%m", "-", "%d", " ", "%H", ":", "%M", ":", "%S">>

FMT_YMD == <<"%Y", "-", "%m", "-", "%d">>

IsDirective(tok) == tok \in {"%m", "%d", "%Y", "%H", "%M", "%S"}

FieldLo(tok) == IF tok \in {"%m", "%d"} THEN 1 ELSE 0

FieldHi(tok) ==
  CASE tok = "%m" -> 12
    [] tok = "%d" -> 31
    [] tok = "%Y" -> 9999
    [] tok = "%H" -> 23
    [] tok = "%M" -> 59
    [] tok = "%S" -> 61

StrptimeDefaults == [Y |-> 1900, m |-> 1, d |-> 1, H |-> 0, M |-> 0, S |-> 0]

SetField(f, tok, v) ==
  CASE tok = "%m" -> [f EXCEPT !.m = v]
    [] tok = "%d" -> [f EXCEPT !.d = v]
    [] tok = "%Y" -> [f EXCEPT !.Y = v]
    [] tok = "%H" -> [f EXCEPT !.H = v]
    [] tok = "%M" -> [f EXCEPT !.M = v]
    [] tok = "%S" -> [f EXCEPT !.S = v]

\* datetime(Y, m, d, H, M, S) of the parsed fields: ValueError when they
\* are out of the constructor's ranges
DatetimeOfFields(f) ==
  IF /\ f.Y \in 1..9999
     /\ f.m \in 1..12
     /\ f.d \in 1..DaysInMonth(f.Y, f.m)
     /\ f.H \in 0..23 /\ f.M \in 0..59 /\ f.S \in 0..59
  THEN Return(MkDatetime(f.Y, f.m, f.d, f.H, f.M, f.S, 0, FALSE, 0))
  ELSE Raise("ValueError")

RECURSIVE StrptimeFrom(_, _, _, _, _)
StrptimeFrom(s, pos, fmt, k, f) ==
  IF k > Len(fmt)
  THEN (IF pos = Len(s) + 1 THEN DatetimeOfFields(f) ELSE Raise("ValueError"))
  ELSE LET tok == fmt[k]
       IN  IF IsDirective(tok)
           THEN LET n == DigitRun(s, pos, IF tok = "%Y" THEN 4 ELSE 2)
                    v == IntAt(s, pos, n)
                IN  IF tok = "%d" /\ n = 0 /\ pos + 1 <= Len(s) /\ s[pos] = " "
                       /\ IsDigit(s[pos + 1]) /\ DigitVal(s[pos + 1]) >= 1
                    THEN \* the " [1-9]" form of %d
                         StrptimeFrom(s, pos + 2, fmt, k + 1,
                                      SetField(f, tok, DigitVal(s[pos + 1])))
                    ELSE IF n = 0 \/ (tok = "%Y" /\ n # 4)
                            \/ v < FieldLo(tok) \/ v > FieldHi(tok)
                    THEN Raise("ValueError")
                    ELSE StrptimeFrom(s, pos + n, fmt, k + 1, SetField(f, tok, v))
           ELSE IF tok = " "
           THEN LET w == SpaceRun(s, pos)
                IN  IF w = 0 THEN Raise("ValueError")
                    ELSE StrptimeFrom(s, pos + w, fmt, k + 1, f)
           ELSE IF pos <= Len(s) /\ s[pos] = tok
           THEN StrptimeFrom(s, pos + 1, fmt, k + 1, f)
           ELSE Raise("ValueError")

strptime(s, fmt) == StrptimeFrom(s, 1, fmt, 1, StrptimeDefaults)

\* ------------------------------------------------------------------------
\* datetime.fromisoformat(s), the grammar every Python 3 release accepts:
\*   YYYY-MM-DD[*HH[:MM[:SS[.fff[fff]]]][(+|-)HH:MM[:SS]]]
\* where * is any one character.  Any failure is a ValueError.  (Offsets with
\* a fractional second, and the further ISO 8601 forms accepted from Python
\* 3.11 on, are outside the strings the model feeds it.)
\* ------------------------------------------------------------------------
AllDigits(s, from, to) == \A p \in from..to : IsDigit(s[p])

\* HH[:MM[:SS[.fff[fff]]]] as [ok, h, m, s, us]
ParseHMSF(t) ==
  LET n  == Len(t)
      ok == /\ n \in {2, 5, 8, 12, 15}
            /\ AllDigits(t, 1, 2)
            /\ n >= 5 => (t[3] = ":" /\ AllDigits(t, 4, 5))
            /\ n >= 8 => (t[6] = ":" /\ AllDigits(t, 7, 8))
            /\ n >= 12 => (t[9] = "." /\ AllDigits(t, 10, n))
  IN  IF ~ok THEN [ok |-> FALSE, h |-> 0, m |-> 0, s |-> 0, us |-> 0]
      ELSE [ok |-> TRUE,
            h  |-> IntAt(t, 1, 2),
            m  |-> IF n >= 5 THEN IntAt(t, 4, 2) ELSE 0,
            s  |-> IF n >= 8 THEN IntAt(t, 7, 2) ELSE 0,
            us |-> IF n = 12 THEN IntAt(t, 10, 3) * 1000
                   ELSE IF n = 15 THEN IntAt(t, 10, 6) ELSE 0]

\* the position of the first "+" or "-" of t, 0 when there is none
RECURSIVE TzPosFrom(_, _)
TzPosFrom(t, p) ==
  IF p > Len(t) THEN 0
  ELSE IF t[p] \in {"+", "-"} THEN p ELSE TzPosFrom(t, p + 1)

fromisoformat(s) ==
  IF ~(/\ Len(s) >= 10
       /\ AllDigits(s, 1, 4) /\ s[5] = "-"
       /\ AllDigits(s, 6, 7) /\ s[8] = "-"
       /\ AllDigits(s, 9, 10))
  THEN Raise("ValueError")
  ELSE LET Y == IntAt(s, 1, 4)
           m == IntAt(s, 6, 2)
           d == IntAt(s, 9, 2)
           dateOk == Y \in 1..9999 /\ m \in 1..12 /\ d \in 1..DaysInMonth(Y, m)
       IN  IF Len(s) = 10
           THEN (IF dateOk THEN Return(MkDatetime(Y, m, d, 0, 0, 0, 0, FALSE, 0))
                 ELSE Raise("ValueError"))
           ELSE LET tstr  == SubSeq(s, 12, Len(s))
                    tzpos == TzPosFrom(tstr, 1)
                    tm    == ParseHMSF(IF tzpos = 0 THEN tstr
                                       ELSE SubSeq(tstr, 1, tzpos - 1))
                    tzstr == IF tzpos = 0 THEN <<>>
                             ELSE SubSeq(tstr, tzpos + 1, Len(tstr))
                    tz    == ParseHMSF(tzstr)
                    sign  == IF tzpos # 0 /\ tstr[tzpos] = "-" THEN -1 ELSE 1
                    off   == sign * (tz.h * 3600 + tz.m * 60 + tz.s)
                    timeOk == tm.ok /\ tm.h \in 0..23 /\ tm.m \in 0..59 /\ tm.s \in 0..59
                    tzOk  == tzpos = 0
                             \/ (/\ Len(tzstr) \in {5, 8}
                                 /\ tz.ok
                                 /\ off > -SecondsPerDay /\ off < SecondsPerDay)
                IN  IF dateOk /\ timeOk /\ tzOk
                    THEN Return(MkDatetime(Y, m, d, tm.h, tm.m, tm.s, tm.us,
                                           tzpos # 0, IF tzpos # 0 THEN off ELSE 0))
                    ELSE Raise("ValueError")

\* ------------------------------------------------------------------------
\* The timestamp parser
\* ------------------------------------------------------------------------
formats_to_try == <<FMT_MDY_HMS, FMT_MDY, FMT_YMD_HMS, FMT_YMD>>

\* for fmt in formats_to_try: try: return strptime(...) except ValueError: continue
\* [kind |-> "exhausted"] when the loop ends without returning
RECURSIVE TryFormats(_, _)
TryFormats(date_str, fmts) ==
  IF fmts = <<>> THEN [kind |-> "exhausted"]
  ELSE LET r == strptime(Strip(date_str), fmts[1])
       IN  IF r.kind = "raise" /\ r.exc = "ValueError"
           THEN TryFormats(date_str, Tail(fmts))
           ELSE r

\* IsoFallback without its try/except: a failure of fromisoformat propagates
IsoFallback_NoExcept(date_str) == fromisoformat(ReplaceZ(date_str))

\* try: return datetime.fromisoformat(date_str.replace('Z', '+00:00'))
\* except: pass  -- and then return None
IsoFallback(date_str) ==
  LET r == fromisoformat(ReplaceZ(date_str))
  IN  IF r.kind = "raise" THEN Return(None) ELSE r

parse_datetime_string(date_str) ==
  IF date_str = <<>> \/ Strip(date_str) = <<>> THEN Return(None)
  ELSE LET r == TryFormats(date_str, formats_to_try)
       IN  IF r.kind = "exhausted" THEN IsoFallback(date_str) ELSE r

\* extract_date_from_datetime yielding a falsy value for a time of midnight
extract_date_MidnightFalsy(dt_obj) ==
  IF IsNone(dt_obj) \/ dt_obj.sec = 0 THEN None ELSE DateOf(dt_obj)

extract_date_from_datetime(dt_obj) ==
  IF IsNone(dt_obj) THEN None ELSE DateOf(dt_obj)

\* ------------------------------------------------------------------------
\* The timestamp strings of the model
\* ------------------------------------------------------------------------
\* timestamp strings as they occur in column I of the history sheet
STR_EMPTY == <<>>

STR_BLANK == <<" ">>

STR_BAD_MONTH == <<"1", "3", "/", "4", "5", "/", "2", "0", "2", "4">>

STR_BAD_DAY == <<"0", "2", "/", "3", "0", "/", "2", "0", "2", "4">>

STR_APP_0900 == <<"0", "1", "/", "1", "5", "/", "2", "0", "2", "4", " ", "0", "9", ":", "0", "0", ":", "0", "0">>

STR_APP_PADDED == <<" ", "1", "/", "1", "5", "/", "2", "0", "2", "4", " ", "1", "0", ":", "0", "0", ":", "0", "0", " ">>

STR_DATE_ONLY == <<"0", "1", "/", "1", "6", "/", "2", "0", "2", "4">>

STR_YMD_100001 == <<"2", "0", "2", "4", "-", "0", "1", "-", "1", "5", " ", "1", "0", ":", "0", "0", ":", "0", "1">>

STR_ISO_NAIVE == <<"2", "0", "2", "4", "-", "0", "1", "-", "1", "5", "T", "0", "9", ":", "3", "0", ":", "0", "0">>

STR_ISO_Z == <<"2", "0", "2", "4", "-", "0", "1", "-", "1", "5", "T", "0", "9", ":", "3", "0", ":", "0", "0", "Z">>

STR_ISO_Z_SPACE == <<" ", "2", "0", "2", "4", "-", "0", "1", "-", "1", "5", "T", "0", "9", ":", "3", "0", ":", "0", "0", "Z">>

STR_WORDS == <<"n", "/", "a">>

\* "01/15/2024 23:30:00", half an hour before the midnight of STR_DATE_ONLY
STR_APP_2330 == <<"0", "1", "/", "1", "5", "/", "2", "0", "2", "4", " ", "2", "3", ":", "3", "0", ":", "0", "0">>

TimestampStrings ==
  {STR_EMPTY, STR_BLANK, STR_BAD_MONTH, STR_BAD_DAY, STR_APP_0900, STR_APP_PADDED, STR_DATE_ONLY, STR_YMD_100001, STR_ISO_NAIVE, STR_ISO_Z, STR_ISO_Z_SPACE, STR_WORDS,
   STR_APP_2330}

\* further timestamps, for the lists handed to the session builder on its own
STR_APP_0930 == <<"0", "1", "/", "1", "5", "/", "2", "0", "2", "4", " ", "0", "9", ":", "3", "0", ":", "0", "0">>

STR_APP_0945 == <<"0", "1", "/", "1", "5", "/", "2", "0", "2", "4", " ", "0", "9", ":", "4", "5", ":", "0", "0">>

STR_APP_1000 == <<"0", "1", "/", "1", "5", "/", "2", "0", "2", "4", " ", "1", "0", ":", "0", "0", ":", "0", "0">>

STR_APP_100001 == <<"0", "1", "/", "1", "5", "/", "2", "0", "2", "4", " ", "1", "0", ":", "0", "0", ":", "0", "1">>

STR_APP_1001 == <<"0", "1", "/", "1", "5", "/", "2", "0", "2", "4", " ", "1", "0", ":", "0", "1", ":", "0", "0">>

STR_APP_1200 == <<"0", "1", "/", "1", "5", "/", "2", "0", "2", "4", " ", "1", "2", ":", "0", "0", ":", "0", "0">>

BuilderStrings ==
  {STR_APP_0900, STR_APP_0930, STR_APP_0945, STR_APP_1000, STR_APP_100001,
   STR_APP_1001, STR_APP_1200, STR_ISO_Z}

\* every timestamp string of the model
ModelStrings == TimestampStrings \cup BuilderStrings

\* ------------------------------------------------------------------------
\* The history sheet and SheetsService.get_history_data
\* (src/sheets_service.py)
\*
\* A row of the range history!A:I is [A, B, I, len]: the cells of column A
\* (id), B (stars_count) and I (datetime) as strings and the number of cells
\* of the row; the API leaves out trailing empty cells, so rows differ in
\* length.  The first row of the sheet is the header.
\* ------------------------------------------------------------------------
\* datetime.min
dt_min == MkDatetime(1, 1, 1, 0, 0, 0, 0, FALSE, 0)

\* the formats the inner parse_datetime of get_history_data tries, in order
sheets_formats == <<FMT_MDY, FMT_YMD, FMT_MDY_HMS, FMT_YMD_HMS>>

\* for fmt in [...]: try: return dt.strptime(date_str, fmt)
\*                   except ValueError: continue
RECURSIVE SheetsTryFormats(_, _)
SheetsTryFormats(date_str, fmts) ==
  IF fmts = <<>> THEN [kind |-> "exhausted"]
  ELSE LET r == strptime(date_str, fmts[1])
       IN  IF r.kind = "raise" /\ r.exc = "ValueError"
           THEN SheetsTryFormats(date_str, Tail(fmts))
           ELSE r

\* the parse_datetime defined inside get_history_data: the sort key of a
\* datetime cell; it strips nothing and never raises
parse_datetime(date_str) ==
  IF date_str = <<>> THEN dt_min
  ELSE LET r == SheetsTryFormats(date_str, sheets_formats)
       IN  IF r.kind = "return" THEN r.value
           ELSE LET iso == fromisoformat(ReplaceZ(date_str))
                IN  IF iso.kind = "return" THEN iso.value ELSE dt_min

\* str.isdigit() for the characters of the model
IsDigitStr(s) == s # <<>> /\ AllDigits(s, 1, Len(s))

\* the dict built of one data row (the fields the model follows)
HistoryItem(row) ==
  [id          |-> row.A,
   stars_count |-> IF row.len > 1 /\ IsDigitStr(row.B)
                   THEN IntAt(row.B, 1, Len(row.B)) ELSE 0,
   datetime    |-> IF row.len > 8 THEN row.I ELSE <<>>]

\* for row in values[1:]: if len(row) >= 6: history_items.append(...)
RECURSIVE HistoryItems(_)
HistoryItems(rows) ==
  IF rows = <<>> THEN <<>>
  ELSE (IF rows[1].len >= 6 THEN <<HistoryItem(rows[1])>> ELSE <<>>)
       \o HistoryItems(Tail(rows))

\* what parse_datetime does with each timestamp string of the model, worked
\* out once
SortKeyTime == [str \in ModelStrings |-> parse_datetime(str)]

\* the key of the sort: (x['stars_count'], parse_datetime(x['datetime']))
SortKey(x) == <<x.stars_count, SortKeyTime[x.datetime]>>

\* tuple comparison k1 < k2 of two keys whose datetimes can be compared
KeyLess(k1, k2) ==
  \/ k1[1] < k2[1]
  \/ k1[1] = k2[1] /\ DtLess(k1[2], k2[2])

\* comparing two keys raises TypeError: equal star counts, and one datetime
\* naive (datetime.min included), the other aware
KeyCompareRaises(k1, k2) == k1[1] = k2[1] /\ ~Comparable(k1[2], k2[2])

\* KeyBefore of a sort without reverse=True
KeyBefore_Ascending(k1, k2) == KeyLess(k1, k2)

\* under reverse=True, the item of key k1 goes before the item of key k2
KeyBefore(k1, k2) == KeyLess(k2, k1)

\* insert x behind every item that does not have to come after it (the sort
\* is stable: items of equal keys keep the order of the sheet)
RECURSIVE InsertByKey(_, _)
InsertByKey(x, s) ==
  IF s = <<>> THEN <<x>>
  ELSE IF KeyBefore(SortKey(x), SortKey(s[1])) THEN <<x>> \o s
  ELSE <<s[1]>> \o InsertByKey(x, Tail(s))

RECURSIVE SortByKeyAcc(_, _)
SortByKeyAcc(acc, s) ==
  IF s = <<>> THEN acc ELSE SortByKeyAcc(InsertByKey(s[1], acc), Tail(s))

\* history_items.sort(key=..., reverse=True)
SortHistoryItems(items) ==
  IF \E i, j \in 1..Len(items) : KeyCompareRaises(SortKey(items[i]), SortKey(items[j]))
  THEN Raise("TypeError")
  ELSE Return(SortByKeyAcc(<<>>, items))

\* get_history_data of a service whose sheet_id is self_sheet_id, while the
\* store is in state store_state and the range holds the rows sheet_values.
\* Every exception is caught inside and turned into the return value [].
get_history_data(self_sheet_id, store_state, sheet_values) ==
  IF IsNone(self_sheet_id) THEN <<>>
  ELSE IF store_state # "ok" THEN <<>>
  ELSE IF sheet_values = <<>> THEN <<>>
  ELSE LET sorted_items == SortHistoryItems(HistoryItems(Tail(sheet_values)))
       IN  IF sorted_items.kind = "raise" THEN <<>> ELSE sorted_items.value

\* ------------------------------------------------------------------------
\* Star counts: get_star_count, increment_star_count, decrement_star_count,
\* _update_star_count_in_sheet (src/sheets_service.py) and the /star route
\* (src/routes/api_routes.py)
\*
\* A row of the range history!A:B is [A, B, len]: the id cell, the
\* stars_count cell (both strings) and the number of cells of the row.
\* ------------------------------------------------------------------------
\* int(s) of a cell: optional blanks, an optional sign, decimal digits
PyInt(s) ==
  LET t      == Strip(s)
      signed == t # <<>> /\ t[1] \in {"+", "-"}
      digits == IF signed THEN Tail(t) ELSE t
  IN  IF IsDigitStr(digits)
      THEN Return((IF signed /\ t[1] = "-" THEN -1 ELSE 1)
                  * IntAt(digits, 1, Len(digits)))
      ELSE Raise("ValueError")

\* the cell that shows after the number n was written with
\* valueInputOption='RAW'
CellOfInt(n) == IF n < 0 THEN <<"-">> \o IntToStr(-n) ELSE IntToStr(n)

\* for i, row in enumerate(values): if len(row) > 0 and row[0] == id
\* the index (from 1) of the first matching row, 0 when there is none; the
\* header row is searched like every other row
RECURSIVE FirstRowFrom(_, _, _)
FirstRowFrom(vals, translation_id, i) ==
  IF i > Len(vals) THEN 0
  ELSE IF vals[i].len > 0 /\ vals[i].A = translation_id THEN i
  ELSE FirstRowFrom(vals, translation_id, i + 1)

FirstRow(vals, translation_id) == FirstRowFrom(vals, translation_id, 1)

\* get_star_count: every failure inside is turned into 0
get_star_count(self_sheet_id, store_state, vals, translation_id) ==
  IF IsNone(self_sheet_id) \/ store_state # "ok" \/ vals = <<>> THEN 0
  ELSE LET i == FirstRow(vals, translation_id)
       IN  IF i = 0 THEN 0
           ELSE IF vals[i].len > 1
           THEN (LET n == PyInt(vals[i].B)
                 IN  IF n.kind = "raise" THEN 0 ELSE n.value)
           ELSE 0

\* new_count = current_count - 1, without the floor at 0
DecrementedCount_NoFloor(current_count) == current_count - 1

\* decrement_star_count: new_count = max(0, current_count - 1)
DecrementedCount(current_count) ==
  IF current_count - 1 > 0 THEN current_count - 1 ELSE 0

\* increment_star_count: new_count = current_count + 1
IncrementedCount(current_count) == current_count + 1

\* values().update(range=B{row_number}, body={'values': [[new_count]]})
WriteStarCell(vals, row_number, new_count) ==
  [vals EXCEPT ![row_number] = [A |-> @.A, B |-> CellOfInt(new_count), len |-> 2]]

\* ------------------------------------------------------------------------
\* Inputs
\* ------------------------------------------------------------------------
\* the longest list handed to the session builder on its own
MaxLen == 4

\* the most records of a history sheet
MaxRecords == 3

\* the timestamps of the data rows of a history sheet, top to bottom
HistoryInputs ==
  UNION {[1..n -> TimestampStrings] : n \in 0..MaxRecords}

\* the header row of the history sheet
HEADER_ROW ==
  [A |-> <<"i", "d">>,
   B |-> <<"s", "t", "a", "r", "s", "_", "c", "o", "u", "n", "t">>,
   I |-> <<"d", "a", "t", "e", "t", "i", "m", "e">>,
   len |-> 9]

\* a history sheet whose data rows carry the timestamps strs, top to bottom.
\* The star counts fall from row to row, so get_history_data returns the
\* records in the order of the sheet without comparing two datetimes; sheets
\* of equal star counts are the subject of the history request below.
SheetOf(strs) ==
  <<HEADER_ROW>> \o
  [k \in 1..Len(strs) |-> [A |-> IntToStr(k),
                           B |-> IntToStr(Len(strs) - k),
                           I |-> strs[k],
                           len |-> 9]]

\* the sheets the analysis runs on: an empty range, and a header with up to
\* MaxRecords data rows
AnalysisSheets == {<<>>} \cup {SheetOf(strs) : strs \in HistoryInputs}

\* the sheets of the runs that never get to read them: an empty range, and a
\* header with one data row
UnreadSheets ==
  {<<>>} \cup {SheetOf(strs) : strs \in [1..1 -> TimestampStrings]}

\* the record store during a run: reachable; not reachable when a range is
\* read; or reachable but the credentials file is missing on this machine
StoreStates == {"ok", "unreachable", "no_credentials"}

\* sheet_id = "1sEnmusmz4X_18emilcsLFIn48nwM6qInLgQKN2rXC5M"
SHEET_ID == [kind |-> "str", value |-> "1sEnmusmz4X_18emilcsLFIn48nwM6qInLgQKN2rXC5M"]

\* what parse_datetime_string does with each timestamp string of the model,
\* worked out once
ParsedString == [str \in ModelStrings |-> parse_datetime_string(str)]

\* the point in time each timestamp string of the model stands for (None for
\* an unparseable one)
TimeOfString ==
  [str \in TimestampStrings \cup BuilderStrings |-> parse_datetime_string(str).value]

\* (datetime, record) pairs as the analysis loop builds them; two records may
\* share a timestamp, and a list may hold the same pair twice
BuilderPairs ==
  {<<TimeOfString[str], [id |-> 1, datetime |-> str]>> : str \in BuilderStrings}
  \cup {<<TimeOfString[str], [id |-> 2, datetime |-> str]>> : str \in {STR_APP_0900}}

BuilderInputs == UNION {[1..n -> BuilderPairs] : n \in 0..MaxLen}

\* ------------------------------------------------------------------------
\* Parts of the backend at rest: each specification below runs one part and
\* holds the variables of the others at these values.
\* ------------------------------------------------------------------------
\* nothing grouped by date, nothing listed, no statistics
NoStatistics == [printed |-> FALSE]

ReporterIdle ==
  /\ sessions_by_date = <<>>
  /\ breakdown = <<>>
  /\ statistics = NoStatistics

AnalysisIdle ==
  /\ pc = "off"
  /\ values = <<>>
  /\ report = <<>>
  /\ history_data = <<>>
  /\ idx = 0
  /\ unique_dates = {}
  /\ parse_errors = <<>>
  /\ translations_with_datetime = <<>>
  /\ sessions = <<>>
  /\ error = "none"
  /\ ReporterIdle

StarIdle ==
  /\ stars_values = <<>>
  /\ stars_values0 = <<>>
  /\ star_req = <<>>

\* no request body, no response yet
NoBody == [present |-> FALSE]

NoResponse == [status |-> 0]

RouteIdle ==
  /\ request_body = NoBody
  /\ response = NoResponse
  /\ route_pc = "off"

\* the module globals as the import of sheets_service.py and api_routes.py
\* leaves them, before the background thread is started
ServiceIdle ==
  /\ sheets_service = 0
  /\ instances = <<>>
  /\ init_status = [initialized |-> FALSE, in_progress |-> FALSE, error |-> "None"]
  /\ initializer = [pc |-> "off", inst |-> 0]
  /\ callers = <<>>

\* ------------------------------------------------------------------------
\* The analysis: count_unique_days_in_history
\* ------------------------------------------------------------------------
\* pc: "connect" before sheets_service = SheetsService()
\*     "fetch"   connected, before get_history_data("history")
\*     "start"   history_data fetched, before the emptiness test
\*     "parse"   in the loop over history_data; idx is the loop's i
\*     "group"   at the call of group_translations_by_sessions
\*     "grouped" the builder has returned; sessions holds its result
\*     "summarised" the sessions are grouped by date, the totals printed
\*     "listed"  the session breakdown is printed
\*     "complete" the session statistics are printed
\*     "failed"  an exception reached an outer except clause; error names it
\*     "done"    returned
\* store:  the state of the record store during the run
\* values: the rows of the range history!A:I
\* report: what the script has printed for its caller so far, one entry
\*         [line, n] per message the model follows
\* (date_counts is written by the loop and never read; it is left out.)
Printed(line, n) == [line |-> line, n |-> n]

Init ==
  /\ StarIdle
  /\ RouteIdle
  /\ ServiceIdle
  /\ pc = "connect"
  /\ \/ store = "ok" /\ values \in AnalysisSheets
     \/ store \in StoreStates \ {"ok"} /\ values \in UnreadSheets
  /\ report = <<>>
  /\ history_data = <<>>
  /\ idx = 0
  /\ unique_dates = {}
  /\ parse_errors = <<>>
  /\ translations_with_datetime = <<>>
  /\ sessions = <<>>
  /\ error = "none"
  /\ ReporterIdle

\* sheets_service = SheetsService(); sheets_service.set_sheet_id(sheet_id)
\* The constructor raises FileNotFoundError when the credentials file is
\* missing, which the first outer except clause reports.
Connect ==
  /\ UNCHANGED <<non_analysis_vars, reporter_vars>>
  /\ pc = "connect"
  /\ IF store = "no_credentials"
     THEN /\ pc' = "failed"
          /\ error' = "FileNotFoundError"
          /\ report' = Append(report, Printed("credentials_file_not_found", 0))
     ELSE /\ pc' = "fetch"
          /\ UNCHANGED <<error, report>>
  /\ UNCHANGED <<history_data, idx, unique_dates, parse_errors,
                 translations_with_datetime, sessions, store, values>>

\* history_data = sheets_service.get_history_data("history")
Fetch ==
  /\ UNCHANGED <<non_analysis_vars, reporter_vars>>
  /\ pc = "fetch"
  /\ history_data' = get_history_data(SHEET_ID, store, values)
  /\ pc' = "start"
  /\ UNCHANGED <<idx, unique_dates, parse_errors, translations_with_datetime,
                 sessions, error, store, values, report>>

\* if not history_data: print("No history data found ..."); return
Start ==
  /\ UNCHANGED <<non_analysis_vars, reporter_vars>>
  /\ pc = "start"
  /\ IF history_data = <<>>
     THEN /\ pc' = "done"
          /\ report' = Append(report, Printed("no_history_data_found", 0))
     ELSE /\ pc' = "parse"
          /\ UNCHANGED report
  /\ UNCHANGED <<history_data, idx, unique_dates, parse_errors,
                 translations_with_datetime, sessions, error, store, values>>

\* one iteration of: for i, record in enumerate(history_data)
ParseRecord ==
  /\ UNCHANGED <<non_analysis_vars, reporter_vars>>
  /\ pc = "parse"
  /\ idx < Len(history_data)
  /\ LET record       == history_data[idx + 1]
         datetime_str == record.datetime
         out          == ParsedString[datetime_str]
     IN  IF out.kind = "raise"
         THEN /\ pc' = "failed"
              /\ error' = out.exc
              /\ report' = Append(report, Printed("error", 0))
              /\ UNCHANGED <<idx, unique_dates, parse_errors,
                             translations_with_datetime>>
         ELSE LET dt_obj    == out.value
                  date_only == extract_date_from_datetime(dt_obj)
              IN  /\ pc' = pc
                  /\ error' = error
                  /\ report' = report
                  /\ idx' = idx + 1
                  /\ IF IsNone(dt_obj)
                     THEN /\ parse_errors' =
                               Append(parse_errors,
                                      [row |-> idx + 2,
                                       datetime_str |-> datetime_str,
                                       record_id |-> record.id])
                          /\ UNCHANGED <<unique_dates, translations_with_datetime>>
                     ELSE IF ~IsNone(date_only)
                     THEN /\ unique_dates' = unique_dates \cup {date_only}
                          /\ translations_with_datetime' =
                               Append(translations_with_datetime, <<dt_obj, record>>)
                          /\ UNCHANGED parse_errors
                     ELSE UNCHANGED <<unique_dates, parse_errors,
                                      translations_with_datetime>>
  /\ UNCHANGED <<history_data, sessions, store, values>>

\* the loop is exhausted
EndParse ==
  /\ UNCHANGED <<non_analysis_vars, reporter_vars>>
  /\ pc = "parse"
  /\ idx = Len(history_data)
  /\ pc' = "group"
  /\ UNCHANGED <<history_data, idx, unique_dates, parse_errors,
                 translations_with_datetime, sessions, error,
                 store, values, report>>

\* sessions = group_translations_by_sessions(translations_with_datetime,
\*                                           session_gap_minutes=60)
\* An exception of the builder reaches the last outer except clause.
GroupCall ==
  /\ UNCHANGED <<non_analysis_vars, reporter_vars>>
  /\ pc = "group"
  /\ LET out == group_translations_by_sessions(translations_with_datetime,
                                               SESSION_GAP_MINUTES)
     IN  IF out.kind = "raise"
         THEN /\ pc' = "failed"
              /\ error' = out.exc
              /\ report' = Append(report, Printed("error", 0))
              /\ UNCHANGED sessions
         ELSE /\ pc' = "grouped"
              /\ sessions' = out.value
              /\ UNCHANGED <<error, report>>
  /\ UNCHANGED <<history_data, idx, unique_dates, parse_errors,
                 translations_with_datetime, store, values>>

\* ------------------------------------------------------------------------
\* The reporter: lines 207-263 of count_unique_days_in_history
\*
\* sessions_by_date, a defaultdict(list), is a sequence of entries
\* [date, sessions] in the order the dates were first met, which is the order
\* a dict keeps its keys in.
\* ------------------------------------------------------------------------
\* sessions_by_date[session['date']].append(session)
PutByDate(by_date, session) ==
  IF \E k \in 1..Len(by_date) : by_date[k].date = session.date
  THEN [k \in 1..Len(by_date) |->
          IF by_date[k].date = session.date
          THEN [date |-> by_date[k].date,
                sessions |-> Append(by_date[k].sessions, session)]
          ELSE by_date[k]]
  ELSE Append(by_date, [date |-> session.date, sessions |-> <<session>>])

\* for session in sessions: sessions_by_date[session['date']].append(session)
RECURSIVE GroupByDateFrom(_, _)
GroupByDateFrom(by_date, rest) ==
  IF rest = <<>> THEN by_date
  ELSE GroupByDateFrom(PutByDate(by_date, rest[1]), Tail(rest))

GroupSessionsByDate(session_list) == GroupByDateFrom(<<>>, session_list)

\* the place of a date among dates sorted in descending order
RECURSIVE InsertDateDesc(_, _)
InsertDateDesc(d, s) ==
  IF s = <<>> THEN <<d>>
  ELSE IF d.ord > s[1].ord THEN <<d>> \o s
  ELSE <<s[1]>> \o InsertDateDesc(d, Tail(s))

RECURSIVE SortDatesDescAcc(_, _)
SortDatesDescAcc(acc, s) ==
  IF s = <<>> THEN acc ELSE SortDatesDescAcc(InsertDateDesc(s[1], acc), Tail(s))

\* the keys of the dict in the order it keeps them
KeysOf(by_date) == [k \in 1..Len(by_date) |-> by_date[k].date]

\* sorted(sessions_by_date.keys()): the oldest date first
SortedDates_Ascending(by_date) ==
  LET desc == SortDatesDescAcc(<<>>, KeysOf(by_date))
  IN  [k \in 1..Len(desc) |-> desc[Len(desc) + 1 - k]]

\* sorted(sessions_by_date.keys(), reverse=True): the keys are distinct dates
SortedDates(by_date) == SortDatesDescAcc(<<>>, KeysOf(by_date))

\* the place of a session in a list sorted by start_time, behind the sessions
\* that start at the same time (list.sort is stable)
RECURSIVE InsertByStart(_, _)
InsertByStart(x, s) ==
  IF s = <<>> THEN <<x>>
  ELSE IF DtLess(x.start_time, s[1].start_time) THEN <<x>> \o s
  ELSE <<s[1]>> \o InsertByStart(x, Tail(s))

RECURSIVE SortByStartAcc(_, _)
SortByStartAcc(acc, s) ==
  IF s = <<>> THEN acc ELSE SortByStartAcc(InsertByStart(s[1], acc), Tail(s))

\* date_sessions.sort(key=lambda s: s['start_time'])
SortByStart(date_sessions) == SortByStartAcc(<<>>, date_sessions)

\* the dict after the list of every date was sorted in place
SortedInPlace(by_date) ==
  [k \in 1..Len(by_date) |->
     [date |-> by_date[k].date, sessions |-> SortByStart(by_date[k].sessions)]]

\* sessions_by_date[date]
SessionsOn(by_date, date) ==
  by_date[CHOOSE k \in 1..Len(by_date) : by_date[k].date = date].sessions

\* the row printed for a session under a date: the date, the times of day of
\* start and end (strftime('%H:%M:%S')), the count and the duration
BreakdownRow(date, session) ==
  [date |-> date,
   start_time |-> session.start_time.sec,
   end_time |-> session.end_time.sec,
   count |-> session.count,
   duration |-> DtSub(session.end_time, session.start_time)]

RowsOf(date, date_sessions) ==
  [k \in 1..Len(date_sessions) |-> BreakdownRow(date, date_sessions[k])]

\* the rows of the breakdown: for date in sorted_dates, for session in the
\* sorted date_sessions
RECURSIVE BreakdownRows(_, _)
BreakdownRows(by_date, dates) ==
  IF dates = <<>> THEN <<>>
  ELSE RowsOf(dates[1], SessionsOn(by_date, dates[1]))
       \o BreakdownRows(by_date, Tail(dates))

\* max(sessions, key=...) taking the last of the sessions that tie
RECURSIVE MaxByCount_LastWins(_)
MaxByCount_LastWins(session_list) ==
  IF Len(session_list) = 1 THEN session_list[1]
  ELSE LET best == MaxByCount_LastWins(SubSeq(session_list, 1, Len(session_list) - 1))
           last == session_list[Len(session_list)]
       IN  IF last.count >= best.count THEN last ELSE best

\* max(sessions, key=lambda s: s['count']): the first of the sessions with
\* the greatest count
RECURSIVE MaxByCount(_)
MaxByCount(session_list) ==
  IF Len(session_list) = 1 THEN session_list[1]
  ELSE LET best == MaxByCount(SubSeq(session_list, 1, Len(session_list) - 1))
           last == session_list[Len(session_list)]
       IN  IF last.count > best.count THEN last ELSE best

\* min(sessions, key=lambda s: s['count']): the first of the sessions with
\* the least count
RECURSIVE MinByCount(_)
MinByCount(session_list) ==
  IF Len(session_list) = 1 THEN session_list[1]
  ELSE LET best == MinByCount(SubSeq(session_list, 1, Len(session_list) - 1))
           last == session_list[Len(session_list)]
       IN  IF last.count < best.count THEN last ELSE best

\* sum(session_counts)
RECURSIVE SumCounts(_)
SumCounts(session_list) ==
  IF session_list = <<>> THEN 0
  ELSE session_list[1].count + SumCounts(Tail(session_list))

\* lines 207-219: the sessions are grouped by date, then the three lines
\* under RESULTS are printed:
\*   Total unique days with translations: len(unique_dates)
\*   Total history records analyzed: len(history_data)
\*   Estimated user sessions: len(sessions)
Summary ==
  /\ UNCHANGED non_analysis_vars
  /\ pc = "grouped"
  /\ pc' = "summarised"
  /\ sessions_by_date' = GroupSessionsByDate(sessions)
  /\ report' = report \o <<Printed("unique_days", Cardinality(unique_dates)),
                           Printed("history_records", Len(history_data)),
                           Printed("user_sessions", Len(sessions))>>
  /\ UNCHANGED <<history_data, idx, unique_dates, parse_errors,
                 translations_with_datetime, sessions, error, store, values,
                 breakdown, statistics>>

\* the breakdown with the display order given to the emitted list as well:
\* sessions is sorted by date, the most recent first
Breakdown_SortsEmitted ==
  /\ UNCHANGED non_analysis_vars
  /\ pc = "summarised"
  /\ pc' = "listed"
  /\ LET sorted_dates == SortedDates(sessions_by_date)
         sorted_dict  == SortedInPlace(sessions_by_date)
     IN  /\ sessions_by_date' = sorted_dict
         /\ breakdown' = BreakdownRows(sorted_dict, sorted_dates)
         /\ sessions' = [k \in 1..Len(sessions) |-> sessions[Len(sessions) + 1 - k]]
  /\ UNCHANGED <<history_data, idx, unique_dates, parse_errors,
                 translations_with_datetime, error, store, values,
                 report, statistics>>

\* lines 224-246: the detailed session breakdown. The dates are taken in
\* descending order; the list of each date is sorted in place by start_time
\* and a row is printed for each of its sessions. The lists are those of
\* sessions_by_date; the list sessions is not touched. With no session
\* nothing is printed.
Breakdown ==
  /\ UNCHANGED non_analysis_vars
  /\ pc = "summarised"
  /\ pc' = "listed"
  /\ LET sorted_dates == SortedDates(sessions_by_date)
         sorted_dict  == SortedInPlace(sessions_by_date)
     IN  /\ sessions_by_date' = sorted_dict
         /\ breakdown' = BreakdownRows(sorted_dict, sorted_dates)
         /\ sessions' = sessions
  /\ UNCHANGED <<history_data, idx, unique_dates, parse_errors,
                 translations_with_datetime, error, store, values,
                 report, statistics>>

\* lines 248-260: the session statistics, printed when there is a session
Statistics ==
  /\ UNCHANGED non_analysis_vars
  /\ pc = "listed"
  /\ pc' = "complete"
  /\ statistics' =
       IF sessions = <<>> THEN statistics
       ELSE [printed |-> TRUE,
             total_users |-> Len(sessions),
             translations |-> SumCounts(sessions),
             max_session |-> MaxByCount(sessions),
             min_session |-> MinByCount(sessions)]
  /\ UNCHANGED <<history_data, idx, unique_dates, parse_errors,
                 translations_with_datetime, sessions, error, store, values,
                 report, sessions_by_date, breakdown>>

Next ==
  \/ Connect \/ Fetch \/ Start \/ ParseRecord \/ EndParse \/ GroupCall
  \/ Summary \/ Breakdown \/ Statistics

Spec == Init /\ [][Next]_vars

\* The session builder called on its own with a list of (datetime, record)
\* pairs.
InitBuilder ==
  /\ StarIdle
  /\ RouteIdle
  /\ ServiceIdle
  /\ pc = "group"
  /\ store = "ok"
  /\ values = <<>>
  /\ report = <<>>
  /\ history_data = <<>>
  /\ idx = 0
  /\ unique_dates = {}
  /\ parse_errors = <<>>
  /\ translations_with_datetime \in BuilderInputs
  /\ sessions = <<>>
  /\ error = "none"
  /\ ReporterIdle

NextBuilder == GroupCall

SpecBuilder == InitBuilder /\ [][NextBuilder]_vars

\* ------------------------------------------------------------------------
\* The /star route: update_star, run by concurrent request handlers
\* ------------------------------------------------------------------------
\* the most requests in progress at a time, each in a handler of its own
MaxHandlers == 2

StarHandlers == 1..MaxHandlers

\* the header row of the range history!A:B
HEADER_AB == [A |-> HEADER_ROW.A, B |-> HEADER_ROW.B, len |-> 2]

\* a data row: its id, and a stars_count cell or none (a row whose cells
\* from B on are empty comes back with one cell)
StarRows(id) ==
  {[A |-> id, B |-> CellOfInt(n), len |-> 2] : n \in 0..1}
  \cup {[A |-> id, B |-> <<>>, len |-> 1]}

\* the sheets the /star requests run on: an empty range, a header alone, a
\* header with one or two data rows of ids "1" and "2"
StarSheets ==
  {<<>>, <<HEADER_AB>>}
  \cup {<<HEADER_AB, r1>> : r1 \in StarRows(IntToStr(1))}
  \cup {<<HEADER_AB, r1, r2>> : r1 \in StarRows(IntToStr(1)),
                                r2 \in StarRows(IntToStr(2))}

\* data.get('translationId'): none, the id of a row, the text of the header
\* cell, an id that may be in no row
RequestIds == {<<>>, IntToStr(1), IntToStr(2), HEADER_ROW.A}

\* data.get('action')
RequestActions == {"star", "unstar", "toggle"}

\* a handler: pc "idle", "get_count", "find_row", "write", "fallback", "done"
IdleHandler ==
  [pc |-> "idle", translation_id |-> <<>>, action |-> "none",
   current_count |-> 0, new_count |-> 0, row_number |-> 0,
   status |-> 0, totalStars |-> 0]

InitStar ==
  /\ AnalysisIdle
  /\ RouteIdle
  /\ ServiceIdle
  /\ store \in {"ok", "unreachable"}
  /\ stars_values \in StarSheets
  /\ stars_values0 = stars_values
  /\ star_req = [h \in StarHandlers |-> IdleHandler]

\* update_star up to the call of increment_star_count or
\* decrement_star_count: the body is read and validated
StarRequest(h) ==
  /\ star_req[h].pc = "idle"
  /\ \E translation_id \in RequestIds, action \in RequestActions :
       star_req' =
         [star_req EXCEPT ![h] =
            IF translation_id = <<>> \/ action \notin {"star", "unstar"}
            THEN [@ EXCEPT !.pc = "done", !.translation_id = translation_id,
                           !.action = action, !.status = 400]
            ELSE [@ EXCEPT !.pc = "get_count", !.translation_id = translation_id,
                           !.action = action]]
  /\ UNCHANGED <<stars_values, stars_values0, non_star_vars>>

\* current_count = self.get_star_count(...); new_count = ...
GetCount(h) ==
  /\ star_req[h].pc = "get_count"
  /\ LET current_count == get_star_count(SHEET_ID, store, stars_values,
                                         star_req[h].translation_id)
     IN  star_req' =
           [star_req EXCEPT ![h] =
              [@ EXCEPT !.pc = "find_row",
                        !.current_count = current_count,
                        !.new_count = IF star_req[h].action = "star"
                                      THEN IncrementedCount(current_count)
                                      ELSE DecrementedCount(current_count)]]
  /\ UNCHANGED <<stars_values, stars_values0, non_star_vars>>

\* _update_star_count_in_sheet: the range is read and searched for the id;
\* a failed read, an empty range and an id in no row raise
FindRow(h) ==
  /\ star_req[h].pc = "find_row"
  /\ LET i == FirstRow(stars_values, star_req[h].translation_id)
     IN  star_req' =
           [star_req EXCEPT ![h] =
              IF store # "ok" \/ stars_values = <<>> \/ i = 0
              THEN [@ EXCEPT !.pc = "fallback"]
              ELSE [@ EXCEPT !.pc = "write", !.row_number = i]]
  /\ UNCHANGED <<stars_values, stars_values0, non_star_vars>>

\* _update_star_count_in_sheet: the cell B{row_number} is written; the
\* method returns new_count and the route answers with it
WriteCell(h) ==
  /\ star_req[h].pc = "write"
  /\ stars_values' = WriteStarCell(stars_values, star_req[h].row_number,
                                   star_req[h].new_count)
  /\ star_req' = [star_req EXCEPT ![h] =
                    [@ EXCEPT !.pc = "done", !.status = 200,
                              !.totalStars = star_req[h].new_count]]
  /\ UNCHANGED <<stars_values0, non_star_vars>>

\* except Exception: return self.get_star_count(...)
Fallback(h) ==
  /\ star_req[h].pc = "fallback"
  /\ star_req' = [star_req EXCEPT ![h] =
                    [@ EXCEPT !.pc = "done", !.status = 200,
                              !.totalStars =
                                 get_star_count(SHEET_ID, store, stars_values,
                                                star_req[h].translation_id)]]
  /\ UNCHANGED <<stars_values, stars_values0, non_star_vars>>

NextStar ==
  \E h \in StarHandlers :
    StarRequest(h) \/ GetCount(h) \/ FindRow(h) \/ WriteCell(h) \/ Fallback(h)

SpecStar == InitStar /\ [][NextStar]_vars

\* ------------------------------------------------------------------------
\* The /history route: get_history
\* ------------------------------------------------------------------------
\* datetime cells of the sheets of the /history requests
HistoryStrings ==
  {STR_EMPTY, STR_APP_0900, STR_APP_0930, STR_ISO_Z, STR_APP_PADDED}

\* the rows that may stand at position k of the data rows: a full row with a
\* star count of 0 or 1 and one of the datetime cells, or a row of five cells
HistoryRowsAt(k) ==
  {[A |-> IntToStr(k), B |-> CellOfInt(n), I |-> str, len |-> 9] :
     n \in 0..1, str \in HistoryStrings}
  \cup {[A |-> IntToStr(k), B |-> CellOfInt(1), I |-> <<>>, len |-> 5]}

RECURSIVE HistoryRowLists(_)
HistoryRowLists(n) ==
  IF n = 0 THEN {<<>>}
  ELSE {Append(rows, r) : rows \in HistoryRowLists(n - 1), r \in HistoryRowsAt(n)}

\* a header with up to MaxRecords data rows
HistorySheets ==
  {<<HEADER_ROW>> \o rows : rows \in UNION {HistoryRowLists(n) : n \in 0..MaxRecords}}

\* the global service as a finished initialization leaves it, or an instance
\* that was never given a sheet id
ServiceReady(sheet_id) ==
  /\ sheets_service = 1
  /\ instances = <<[sheet_id |-> sheet_id]>>
  /\ init_status = [initialized |-> TRUE, in_progress |-> FALSE, error |-> "None"]
  /\ initializer = [pc |-> "off", inst |-> 0]
  /\ callers = <<>>

InitHistory ==
  /\ pc = "off"
  /\ route_pc = "history"
  /\ request_body = NoBody
  /\ response = NoResponse
  /\ \/ store \in {"ok", "unreachable"} /\ ServiceReady(SHEET_ID)
     \/ store = "ok" /\ ServiceReady(None)
  /\ values \in HistorySheets
  /\ report = <<>>
  /\ history_data = <<>>
  /\ idx = 0
  /\ unique_dates = {}
  /\ parse_errors = <<>>
  /\ translations_with_datetime = <<>>
  /\ sessions = <<>>
  /\ error = "none"
  /\ ReporterIdle
  /\ StarIdle

\* get_history: sheets_service = get_sheets_service();
\* history_data = sheets_service.get_history_data("history");
\* return jsonify({"history": history_data, "count": len(history_data), ...})
GetHistory ==
  /\ route_pc = "history"
  /\ history_data' = get_history_data(instances[sheets_service].sheet_id,
                                      store, values)
  /\ response' = [status |-> 200, count |-> Len(history_data')]
  /\ route_pc' = "responded"
  /\ UNCHANGED <<values, request_body, non_route_vars>>

NextHistory == GetHistory

SpecHistory == InitHistory /\ [][NextHistory]_vars

\* ------------------------------------------------------------------------
\* The /translate route: translate_form
\* ------------------------------------------------------------------------
\* a JSON string; a key that is absent or null reads as None
JStr(s) == [kind |-> "str", value |-> s]

\* bool(v) of None or a string
Truthy(v) == ~IsNone(v) /\ v.value # ""

\* the Python expression  a or b
PyOr(a, b) == IF Truthy(a) THEN a ELSE b

\* data.get('sourceForm'), data.get('targetForm')
FormValues == {None, JStr(""), JStr("poem"), JStr("haiku")}

\* data.get('sourceText'), data.get('inputText')
TextValues == {None, JStr(""), JStr("hello")}

\* request.get_json(): nothing (or an empty object), or an object read
\* through its four keys
TranslateBodies ==
  {NoBody} \cup
  {[present |-> TRUE, sourceForm |-> sf, targetForm |-> tf,
    sourceText |-> st, inputText |-> it] :
     sf \in FormValues, tf \in FormValues, st \in TextValues, it \in TextValues}

\* the forms of the forms sheet, as get_form_types returns them; {} when the
\* sheet could not be read
KnownForms == {"poem"}

Response(status, body) == [status |-> status, body |-> body]

\* a new-born timestamp: datetime.now().strftime("%m/%d/%Y %H:%M:%S")
STR_NOW == STR_APP_1200

InitTranslate ==
  /\ pc = "off"
  /\ route_pc = "translate"
  /\ request_body \in TranslateBodies
  /\ response = NoResponse
  /\ store \in {"ok", "unreachable"}
  /\ ServiceReady(SHEET_ID)
  /\ values = <<HEADER_ROW>>
  /\ report = <<>>
  /\ history_data = <<>>
  /\ idx = 0
  /\ unique_dates = {}
  /\ parse_errors = <<>>
  /\ translations_with_datetime = <<>>
  /\ sessions = <<>>
  /\ error = "none"
  /\ ReporterIdle
  /\ StarIdle

\* source_text = data.get('sourceText') or data.get('inputText')
SourceTextOf(data) == PyOr(data.sourceText, data.inputText)

\* lines 280-301: the body is read, the parameters are printed and checked.
\* The debug print slices source_text before the check, so a source_text of
\* None raises TypeError, which the outer except clause answers.
TranslateValidate ==
  /\ route_pc = "translate"
  /\ LET data == request_body
     IN  IF ~data.present
         THEN /\ response' = Response(400, "No data provided")
              /\ route_pc' = "responded"
         ELSE IF IsNone(SourceTextOf(data))
         THEN /\ response' = Response(500, "Translation failed")
              /\ route_pc' = "responded"
         ELSE IF ~(/\ Truthy(data.sourceForm)
                   /\ Truthy(data.targetForm)
                   /\ Truthy(SourceTextOf(data)))
         THEN /\ response' = Response(400, "Missing required parameters")
              /\ route_pc' = "responded"
         ELSE /\ response' = response
              /\ route_pc' = "forms"
  /\ UNCHANGED <<values, history_data, request_body, non_route_vars>>

\* lines 303-355: forms that are not in the forms sheet are added to it; a
\* failed add is answered with 500; equal forms are answered at once
TranslateForms ==
  /\ route_pc = "forms"
  /\ \E form_types \in {KnownForms, {}}, added \in BOOLEAN :
       LET source_form == request_body.sourceForm.value
           target_form == request_body.targetForm.value
       IN  IF source_form \notin form_types /\ ~added
           THEN /\ response' = Response(500, "Failed to create custom sourceForm")
                /\ route_pc' = "responded"
           ELSE IF target_form \notin form_types \cup {source_form} /\ ~added
           THEN /\ response' = Response(500, "Failed to create custom targetForm")
                /\ route_pc' = "responded"
           ELSE IF source_form = target_form
           THEN /\ response' = Response(200, "Source and target forms are identical")
                /\ route_pc' = "responded"
           ELSE /\ response' = response
                /\ route_pc' = "llm"
  /\ UNCHANGED <<values, history_data, request_body, non_route_vars>>

\* lines 357-420: the prompt is built and the completion API is called; an
\* exception of either is answered by the outer except clause
TranslateLLM ==
  /\ route_pc = "llm"
  /\ \E completed \in BOOLEAN :
       IF completed
       THEN /\ response' = response
            /\ route_pc' = "log"
       ELSE /\ response' = Response(500, "Translation failed")
            /\ route_pc' = "responded"
  /\ UNCHANGED <<values, history_data, request_body, non_route_vars>>

\* what became of the logging of a translation (lines 424-444): the row was
\* appended; add_translation_to_history returned False; get_sheets_service
\* returned nothing; an exception was raised inside the try block. A store
\* that does not answer makes the append fail, which
\* add_translation_to_history turns into False.
LogOutcomes(store_state) ==
  (IF store_state = "ok" THEN {"logged"} ELSE {"returned_false"})
  \cup {"service_unavailable", "raised"}

\* the answer made dependent on the logging: an error when it failed
LogResponse_FailOnError(outcome) ==
  IF outcome = "logged"
  THEN Response(200, "translatedText")
  ELSE Response(500, "Translation failed")

\* lines 445-454: every failure of the logging is printed and passed over;
\* the answer is the translation
LogResponse(outcome) == Response(200, "translatedText")

\* lines 423-454: the translation is appended to the history sheet, and the
\* translation is answered whether or not that worked
TranslateLog ==
  /\ route_pc = "log"
  /\ \E outcome \in LogOutcomes(store) :
       /\ IF outcome = "logged"
          THEN values' = Append(values, [A |-> IntToStr(Len(values)),
                                         B |-> CellOfInt(0),
                                         I |-> STR_NOW,
                                         len |-> 9])
          ELSE values' = values
       /\ response' = LogResponse(outcome)
  /\ route_pc' = "responded"
  /\ UNCHANGED <<history_data, request_body, non_route_vars>>

NextTranslate ==
  TranslateValidate \/ TranslateForms \/ TranslateLLM \/ TranslateLog

SpecTranslate == InitTranslate /\ [][NextTranslate]_vars

\* ------------------------------------------------------------------------
\* The global sheets service: the background initializer
\* (_background_initialize_sheets, initialize_sheets_service) and the request
\* handlers that call get_sheets_service, as threads that interleave between
\* the statements of the code (constructing a SheetsService reads a file and
\* builds an API client, during which other threads run)
\*
\* sheets_service: the module global; 0 for None, else an index of instances
\* instances:      the SheetsService objects constructed so far, [sheet_id]
\* init_status:    _sheets_initialization_status
\* initializer:    the background thread, [pc, inst]
\* callers:        the handlers inside get_sheets_service, [pc, inst, got]
\* ------------------------------------------------------------------------
Callers == 1..MaxHandlers

\* SheetsService(): self.sheet_id = sheet_id, which is None by default
NewInstance == [sheet_id |-> None]

InitService ==
  /\ AnalysisIdle
  /\ StarIdle
  /\ RouteIdle
  /\ store \in {"ok", "no_credentials"}
  /\ sheets_service = 0
  /\ instances = <<>>
  /\ init_status = [initialized |-> FALSE, in_progress |-> FALSE, error |-> "None"]
  /\ initializer = [pc |-> "start", inst |-> 0]
  /\ callers = [c \in Callers |-> [pc |-> "idle", inst |-> 0, got |-> 0]]

\* _sheets_initialization_status['in_progress'] = True
BgStart ==
  /\ initializer.pc = "start"
  /\ init_status' = [init_status EXCEPT !.in_progress = TRUE]
  /\ initializer' = [initializer EXCEPT !.pc = "construct"]
  /\ UNCHANGED <<sheets_service, instances, callers, non_service_vars>>

\* initialize_sheets_service: the right-hand side of
\* sheets_service = SheetsService(); when the constructor raises,
\* initialize_global_sheets_service returns False and the error is noted
BgConstruct ==
  /\ initializer.pc = "construct"
  /\ IF store = "no_credentials"
     THEN /\ init_status' = [init_status EXCEPT !.error = "Initialization failed"]
          /\ initializer' = [initializer EXCEPT !.pc = "finally"]
          /\ UNCHANGED instances
     ELSE /\ instances' = Append(instances, NewInstance)
          /\ initializer' = [pc |-> "assign", inst |-> Len(instances) + 1]
          /\ UNCHANGED init_status
  /\ UNCHANGED <<sheets_service, callers, non_service_vars>>

\* initialize_sheets_service: the global is bound to the new instance
BgAssign ==
  /\ initializer.pc = "assign"
  /\ sheets_service' = initializer.inst
  /\ initializer' = [initializer EXCEPT !.pc = "set_sheet_id"]
  /\ UNCHANGED <<instances, init_status, callers, non_service_vars>>

\* initialize_sheets_service: sheets_service.set_sheet_id(sheet_id), on the
\* instance the global is bound to now
BgSetSheetId ==
  /\ initializer.pc = "set_sheet_id"
  /\ instances' = [instances EXCEPT ![sheets_service] = [sheet_id |-> SHEET_ID]]
  /\ initializer' = [initializer EXCEPT !.pc = "succeed"]
  /\ UNCHANGED <<sheets_service, init_status, callers, non_service_vars>>

\* if success: _sheets_initialization_status['initialized'] = True
BgSucceed ==
  /\ initializer.pc = "succeed"
  /\ init_status' = [init_status EXCEPT !.initialized = TRUE]
  /\ initializer' = [initializer EXCEPT !.pc = "finally"]
  /\ UNCHANGED <<sheets_service, instances, callers, non_service_vars>>

\* finally: _sheets_initialization_status['in_progress'] = False
BgFinally ==
  /\ initializer.pc = "finally"
  /\ init_status' = [init_status EXCEPT !.in_progress = FALSE]
  /\ initializer' = [initializer EXCEPT !.pc = "done"]
  /\ UNCHANGED <<sheets_service, instances, callers, non_service_vars>>

\* get_sheets_service: if sheets_service is None
CallCheck(c) ==
  /\ callers[c].pc = "idle"
  /\ callers' = [callers EXCEPT ![c].pc =
                   IF sheets_service = 0 THEN "construct" ELSE "return"]
  /\ UNCHANGED <<sheets_service, instances, init_status, initializer,
                 non_service_vars>>

\* get_sheets_service: the right-hand side of sheets_service = SheetsService()
CallConstruct(c) ==
  /\ callers[c].pc = "construct"
  /\ IF store = "no_credentials"
     THEN /\ callers' = [callers EXCEPT ![c].pc = "raised"]
          /\ UNCHANGED instances
     ELSE /\ instances' = Append(instances, NewInstance)
          /\ callers' = [callers EXCEPT ![c] =
                           [pc |-> "assign", inst |-> Len(instances) + 1, got |-> 0]]
  /\ UNCHANGED <<sheets_service, init_status, initializer, non_service_vars>>

\* get_sheets_service: the global is bound to the new instance
CallAssign(c) ==
  /\ callers[c].pc = "assign"
  /\ sheets_service' = callers[c].inst
  /\ callers' = [callers EXCEPT ![c].pc = "return"]
  /\ UNCHANGED <<instances, init_status, initializer, non_service_vars>>

\* get_sheets_service: return sheets_service
CallReturn(c) ==
  /\ callers[c].pc = "return"
  /\ callers' = [callers EXCEPT ![c] =
                   [pc |-> "returned", inst |-> callers[c].inst,
                    got |-> sheets_service]]
  /\ UNCHANGED <<sheets_service, instances, init_status, initializer,
                 non_service_vars>>

NextService ==
  \/ BgStart \/ BgConstruct \/ BgAssign \/ BgSetSheetId \/ BgSucceed \/ BgFinally
  \/ \E c \in Callers :
       CallCheck(c) \/ CallConstruct(c) \/ CallAssign(c) \/ CallReturn(c)

SpecService == InitService /\ [][NextService]_vars

\* ------------------------------------------------------------------------
\* Properties of the session builder
\* ------------------------------------------------------------------------
\* The time of an event is the time its record's timestamp stands for.
EventTime(record) == TimeOfString[record.datetime]

MemberTimes(session) ==
  [k \in 1..Len(session.translations) |-> EventTime(session.translations[k])]

\* Seconds from 2024-01-01 00:00 to the instant of dt, measured here without
\* the timedelta arithmetic of the model.
SecondsOf(dt) == (dt.ord - Ymd2Ord(2024, 1, 1)) * 86400 + dt.sec - dt.off

\* b is at most m minutes after a (and not before it)
WithinMinutesAfter(a, b, m) ==
  LET d == SecondsOf(b) - SecondsOf(a)
  IN  /\ d > 0 \/ (d = 0 /\ b.us >= a.us)
      /\ d < m * 60 \/ (d = m * 60 /\ b.us <= a.us)

\* b is more than m minutes after a
MoreThanMinutesAfter(a, b, m) ==
  LET d == SecondsOf(b) - SecondsOf(a)
  IN  d > m * 60 \/ (d = m * 60 /\ b.us > a.us)

StrictlyAfter(a, b) ==
  SecondsOf(b) > SecondsOf(a) \/ (SecondsOf(b) = SecondsOf(a) /\ b.us > a.us)

\* exactly m minutes lie between a and b, in either order
ExactlyMinutesApart(a, b, m) ==
  /\ a.us = b.us
  /\ SecondsOf(b) - SecondsOf(a) \in {m * 60, -(m * 60)}

\* the list handed to the builder holds exactly two events
TwoEvents == Len(translations_with_datetime) = 2

InputTime(k) == translations_with_datetime[k][1]

\* C1: in every returned session, every member event that has a later member
\* event is followed by one within 60 minutes; that is, consecutive member
\* events in time order are at most 60 minutes apart.
C1_GapsWithinSession ==
  \A k \in 1..Len(sessions) :
    LET ts == MemberTimes(sessions[k])
    IN  \A j \in 1..Len(ts) :
          (\E i \in 1..Len(ts) : StrictlyAfter(ts[j], ts[i]))
          => (\E i \in 1..Len(ts) : /\ StrictlyAfter(ts[j], ts[i])
                                    /\ WithinMinutesAfter(ts[j], ts[i], 60))

\* a returned list of two sessions, one of them of three events or more
C1_Witness ==
  /\ pc = "grouped"
  /\ Len(sessions) >= 2
  /\ \E k \in 1..Len(sessions) :
       /\ sessions[k].count >= 3
       /\ \E i, j \in 1..sessions[k].count :
            StrictlyAfter(MemberTimes(sessions[k])[i], MemberTimes(sessions[k])[j])

\* C2: every event of session i+1 is more than 60 minutes after every event
\* of session i (so the last event of a session and the first of the next are
\* more than 60 minutes apart); two events 61 minutes apart give two sessions
\* of count 1.
C2_GapsBetweenSessions ==
  /\ \A k \in 1..(Len(sessions) - 1) :
       \A i \in 1..Len(sessions[k].translations) :
         \A j \in 1..Len(sessions[k + 1].translations) :
           MoreThanMinutesAfter(MemberTimes(sessions[k])[i],
                                MemberTimes(sessions[k + 1])[j], 60)
  /\ (pc = "grouped" /\ TwoEvents
      /\ ExactlyMinutesApart(InputTime(1), InputTime(2), 61))
     => /\ Len(sessions) = 2
        /\ sessions[1].count = 1
        /\ sessions[2].count = 1

\* the builder has returned for two events 61 minutes apart
C2_Witness ==
  /\ pc = "grouped"
  /\ TwoEvents
  /\ ExactlyMinutesApart(InputTime(1), InputTime(2), 61)
  /\ Len(sessions) = 2

RECURSIVE CountIn(_, _)
CountIn(x, s) ==
  IF s = <<>> THEN 0 ELSE (IF s[1] = x THEN 1 ELSE 0) + CountIn(x, Tail(s))

RECURSIVE SumOfCounts(_)
SumOfCounts(ss) == IF ss = <<>> THEN 0 ELSE ss[1].count + SumOfCounts(Tail(ss))

RECURSIVE AllMembers(_)
AllMembers(ss) ==
  IF ss = <<>> THEN <<>> ELSE ss[1].translations \o AllMembers(Tail(ss))

InputRecords == RecordsOf(translations_with_datetime)

\* C3: when the builder returns, the sessions partition its input: every
\* record occurs in the sessions as often as in the input, all its
\* occurrences in one session, and the counts add up to the input's length.
C3_Partition ==
  pc = "grouped" =>
    /\ \A k \in 1..Len(InputRecords) :
         LET r == InputRecords[k]
         IN  /\ CountIn(r, AllMembers(sessions)) = CountIn(r, InputRecords)
             /\ Cardinality({n \in 1..Len(sessions) :
                               CountIn(r, sessions[n].translations) > 0}) = 1
    /\ \A n \in 1..Len(sessions) :
         /\ sessions[n].count = Len(sessions[n].translations)
         /\ \A j \in 1..sessions[n].count :
              CountIn(sessions[n].translations[j], InputRecords) > 0
    /\ SumOfCounts(sessions) = Len(translations_with_datetime)

\* the builder has returned several sessions for a list that holds one pair twice
C3_Witness ==
  /\ pc = "grouped"
  /\ Len(sessions) >= 2
  /\ \E i, j \in 1..Len(translations_with_datetime) :
       i # j /\ translations_with_datetime[i] = translations_with_datetime[j]

C5_DocumentedThreshold ==
  (pc = "grouped" /\ TwoEvents)
  => LET a == InputTime(1)
         b == InputTime(2)
         apart60 == \/ MoreThanMinutesAfter(a, b, 60)
                    \/ MoreThanMinutesAfter(b, a, 60)
                    \/ ExactlyMinutesApart(a, b, 60)
     IN  Len(sessions) = (IF apart60 THEN 2 ELSE 1)

\* C6: in every returned session start_time is the time of its earliest
\* member event, end_time the time of its latest, every member event lies
\* between them, and end_time is not before start_time.
C6_StartEndBounds ==
  \A k \in 1..Len(sessions) :
    LET ts == MemberTimes(sessions[k])
    IN  /\ \E i \in 1..Len(ts) : ts[i] = sessions[k].start_time
        /\ \E i \in 1..Len(ts) : ts[i] = sessions[k].end_time
        /\ \A i \in 1..Len(ts) :
             /\ ~StrictlyAfter(ts[i], sessions[k].start_time)
             /\ ~StrictlyAfter(sessions[k].end_time, ts[i])
        /\ ~StrictlyAfter(sessions[k].end_time, sessions[k].start_time)

\* a returned session whose end is after its start, built from a list that
\* was not in time order
C6_Witness ==
  /\ pc = "grouped"
  /\ \E k \in 1..Len(sessions) :
       StrictlyAfter(sessions[k].start_time, sessions[k].end_time)
  /\ \E i \in 1..(Len(translations_with_datetime) - 1) :
       StrictlyAfter(InputTime(i + 1), InputTime(i))

\* the list with the elements at positions i and i+1 exchanged
SwapAt(s, i) ==
  [k \in 1..Len(s) |-> IF k = i THEN s[i + 1] ELSE IF k = i + 1 THEN s[i] ELSE s[k]]

\* the member events of a session as a bag
BagOfSeq(s) == [x \in {s[k] : k \in 1..Len(s)} |-> CountIn(x, s)]

PartitionOf(ss) == {BagOfSeq(ss[k].translations) : k \in 1..Len(ss)}

\* C7: exchanging two neighbours of the input list does not change the
\* partition into sessions (nor whether the builder returns).  Every list up
\* to the bound is an input, so the same holds for every permutation.
C7_OrderIndependent ==
  pc \in {"grouped", "failed"} =>
    \A i \in 1..(Len(translations_with_datetime) - 1) :
      LET out == group_translations_by_sessions(
                   SwapAt(translations_with_datetime, i), SESSION_GAP_MINUTES)
      IN  IF pc = "failed" THEN out.kind = "raise"
          ELSE /\ out.kind = "return"
               /\ Len(out.value) = Len(sessions)
               /\ PartitionOf(out.value) = PartitionOf(sessions)

\* several sessions were returned, and exchanging two neighbours of the
\* input changes the order of the events inside a session only
C7_Witness ==
  /\ pc = "grouped"
  /\ Len(sessions) >= 2
  /\ \E i \in 1..(Len(translations_with_datetime) - 1) :
       LET out == group_translations_by_sessions(
                    SwapAt(translations_with_datetime, i), SESSION_GAP_MINUTES)
       IN  /\ out.kind = "return"
           /\ out.value # sessions
           /\ InputTime(i) = InputTime(i + 1)

\* C8: the returned sessions are in ascending time order: each session ends
\* before the next one starts.
C8_SessionsAscending ==
  \A k \in 1..(Len(sessions) - 1) :
    StrictlyAfter(sessions[k].end_time, sessions[k + 1].start_time)

\* three sessions were returned for a list given latest event first
C8_Witness ==
  /\ pc = "grouped"
  /\ Len(sessions) >= 3
  /\ StrictlyAfter(InputTime(Len(translations_with_datetime)), InputTime(1))

\* ------------------------------------------------------------------------
\* Properties of the analysis loop and of the timestamp parser
\* ------------------------------------------------------------------------
\* the number of parse failures recorded for the record at position k
\* (0-based position k - 1, hence row k + 1), with its raw timestamp and id
FailuresFor(k) ==
  Cardinality({e \in 1..Len(parse_errors) :
                 parse_errors[e] = [row |-> k + 1,
                                    datetime_str |-> history_data[k].datetime,
                                    record_id |-> history_data[k].id]})

\* the number of parsed events that hold the record at position k
ParsedFor(k) ==
  Cardinality({e \in 1..Len(translations_with_datetime) :
                 translations_with_datetime[e][2] = history_data[k]})

\* C9: every record the loop has handled is either in the parse-failure list
\* (with its position + 2 as row and its raw timestamp) or in the list of
\* parsed events, never both and never neither, and no list holds anything
\* else; records with timestamp "" or "13/45/2024" are parse failures; and
\* when the builder returns, its sessions hold exactly the parsed events.
C9_ParseAccounting ==
  /\ Len(parse_errors) + Len(translations_with_datetime) = idx
  /\ pc \in {"group", "grouped"} => idx = Len(history_data)
  /\ \A k \in 1..Len(history_data) :
       /\ FailuresFor(k) + ParsedFor(k) = (IF k <= idx THEN 1 ELSE 0)
       /\ (k <= idx /\ history_data[k].datetime \in {STR_EMPTY, STR_BAD_MONTH})
          => FailuresFor(k) = 1
  /\ pc = "grouped" =>
       /\ SumOfCounts(sessions) = Len(translations_with_datetime)
       /\ \A k \in 1..Len(history_data) :
            CountIn(history_data[k], AllMembers(sessions)) = ParsedFor(k)

\* a sheet with a "" record, a "13/45/2024" record and a valid record has
\* been analysed: two parse failures, one session
C9_Witness ==
  /\ pc = "grouped"
  /\ Len(parse_errors) = 2
  /\ \E i, j \in 1..Len(history_data) :
       /\ history_data[i].datetime = STR_EMPTY
       /\ history_data[j].datetime = STR_BAD_MONTH
  /\ Len(sessions) = 1

\* what the parser is to return for each timestamp string of the sheet:
\* day ordinal 738900 is 2024-01-15
Expected(ord, sec, aware) ==
  [kind |-> "datetime", ord |-> ord, sec |-> sec, us |-> 0, aware |-> aware, off |-> 0]

ExpectedParse(str) ==
  CASE str = STR_APP_0900 -> Expected(738900, 9 * 3600, FALSE)
    [] str = STR_APP_PADDED -> Expected(738900, 10 * 3600, FALSE)
    [] str = STR_DATE_ONLY -> Expected(738901, 0, FALSE)
    [] str = STR_YMD_100001 -> Expected(738900, 10 * 3600 + 1, FALSE)
    [] str = STR_ISO_NAIVE -> Expected(738900, 9 * 3600 + 30 * 60, FALSE)
    [] str = STR_ISO_Z -> Expected(738900, 9 * 3600 + 30 * 60, TRUE)
    [] str = STR_APP_2330 -> Expected(738900, 23 * 3600 + 30 * 60, FALSE)
    [] OTHER -> None

\* C10: the parser never raises: the analysis never fails inside the loop,
\* every record with an empty, blank or unparseable timestamp is recorded as
\* a parse failure (the parser returned None), and every record with a
\* timestamp in an accepted format is paired with the point in time the
\* timestamp names.
C10_ParserNeverRaises ==
  /\ (pc = "failed" /\ history_data # <<>>)
       => (idx = Len(history_data) /\ error = "TypeError")
  /\ \A k \in 1..idx :
       LET expected == ExpectedParse(history_data[k].datetime)
       IN  IF IsNone(expected)
           THEN FailuresFor(k) = 1
           ELSE \E e \in 1..Len(translations_with_datetime) :
                  translations_with_datetime[e] = <<expected, history_data[k]>>

\* the loop has handled a blank timestamp, an impossible date and a
\* timestamp with a trailing Z
C10_Witness ==
  /\ pc = "group"
  /\ \E i, j, k \in 1..Len(history_data) :
       /\ history_data[i].datetime = STR_BLANK
       /\ history_data[j].datetime = STR_BAD_DAY
       /\ history_data[k].datetime = STR_ISO_Z
  /\ Len(parse_errors) = 2
  /\ Len(translations_with_datetime) = 1
  /\ translations_with_datetime[1][1].aware

\* ------------------------------------------------------------------------
\* Properties of the analysis as a whole
\* ------------------------------------------------------------------------
\* the lines the script has printed, in order
ReportLines == [k \in 1..Len(report) |-> report[k].line]

\* C11: when the record store cannot be reached, the analysis reports one
\* top-level failure and nothing else, and it never gets as far as parsing
\* or grouping: the failure is not reported as "no history data found" or as
\* any other outcome.
C11_StoreFailureReported ==
  store # "ok" =>
    /\ pc \notin {"parse", "group", "grouped", "summarised"}
    /\ \A k \in 1..Len(report) :
         report[k].line \in {"error", "credentials_file_not_found"}
    /\ pc \in {"done", "failed"} => (pc = "failed" /\ Len(report) = 1)

\* the calendar dates named by the timestamps of the fetched records
DatesNamed ==
  {ExpectedParse(history_data[k].datetime).ord :
     k \in {j \in 1..Len(history_data) :
              ~IsNone(ExpectedParse(history_data[j].datetime))}}

\* C12: the unique-day count the analysis prints is the number of distinct
\* calendar dates among the records whose timestamp parses, whatever the
\* number of sessions: records on exactly two dates give 2, in one session
\* or in several.
C12_UniqueDayCount ==
  pc = "summarised" =>
    /\ Cardinality({k \in 1..Len(report) : report[k].line = "unique_days"}) = 1
    /\ \A k \in 1..Len(report) :
         report[k].line = "unique_days" => report[k].n = Cardinality(DatesNamed)
    /\ Cardinality(DatesNamed) = 2 =>
         \E k \in 1..Len(report) : report[k] = Printed("unique_days", 2)

\* one session that crosses midnight (23:30 and 00:00 of the next day) has
\* been reported with a unique-day count of 2
C12_Witness ==
  /\ pc = "summarised"
  /\ Len(sessions) = 1
  /\ sessions[1].count = 2
  /\ sessions[1].start_time.ord + 1 = sessions[1].end_time.ord
  /\ \E k \in 1..Len(report) : report[k] = Printed("unique_days", 2)

\* ------------------------------------------------------------------------
\* Scenarios of the session builder
\* ------------------------------------------------------------------------
\* the length of a session as the report computes it: end_time - start_time
Duration(session) == DtSub(session.end_time, session.start_time)

ZeroDuration == [days |-> 0, seconds |-> 0, microseconds |-> 0]

\* C13: a list of one event (t, r) gives exactly one session, of count 1,
\* holding r, with start_time = end_time = t and a duration of zero.
C13_SingleEvent ==
  (pc = "grouped" /\ Len(translations_with_datetime) = 1) =>
    /\ Len(sessions) = 1
    /\ sessions[1].count = 1
    /\ sessions[1].translations = <<translations_with_datetime[1][2]>>
    /\ sessions[1].start_time = InputTime(1)
    /\ sessions[1].end_time = InputTime(1)
    /\ Duration(sessions[1]) = ZeroDuration
    /\ SecondsOf(sessions[1].end_time) = SecondsOf(sessions[1].start_time)

\* the builder has returned for a list of one event
C13_Witness ==
  /\ pc = "grouped"
  /\ Len(translations_with_datetime) = 1
  /\ Len(sessions) = 1
  /\ sessions[1].start_time = TimeOfString[STR_APP_0945]

\* C14: an empty list gives an empty list of sessions and no exception.
C14_EmptyInput ==
  translations_with_datetime = <<>> =>
    /\ pc \in {"group", "grouped"}
    /\ error = "none"
    /\ sessions = <<>>

\* the builder has returned for the empty list
C14_Witness ==
  /\ pc = "grouped"
  /\ translations_with_datetime = <<>>
  /\ sessions = <<>>

\* the four points in time of the scenario, written out
T0900 == Expected(738900, 9 * 3600, FALSE)

T0930 == Expected(738900, 9 * 3600 + 30 * 60, FALSE)

T0945 == Expected(738900, 9 * 3600 + 45 * 60, FALSE)

T1200 == Expected(738900, 12 * 3600, FALSE)

\* C15: events at 09:00, 09:30, 09:45 and 12:00 of one day, in any order of
\* the list, give exactly two sessions: first the one of 09:00, 09:30 and
\* 09:45 (count 3, 45 minutes long), then the one of 12:00 (count 1, length
\* zero).
C15_FourEventScenario ==
  (/\ pc = "grouped"
   /\ Len(translations_with_datetime) = 4
   /\ {InputTime(k) : k \in 1..4} = {T0900, T0930, T0945, T1200}) =>
    /\ Len(sessions) = 2
    /\ sessions[1].count = 3
    /\ {MemberTimes(sessions[1])[k] : k \in 1..3} = {T0900, T0930, T0945}
    /\ sessions[1].start_time = T0900
    /\ sessions[1].end_time = T0945
    /\ Duration(sessions[1]) = [days |-> 0, seconds |-> 45 * 60, microseconds |-> 0]
    /\ sessions[2].count = 1
    /\ MemberTimes(sessions[2]) = <<T1200>>
    /\ sessions[2].start_time = T1200
    /\ sessions[2].end_time = T1200
    /\ Duration(sessions[2]) = ZeroDuration

\* the builder has returned for the four events given latest first
C15_Witness ==
  /\ pc = "grouped"
  /\ [k \in 1..Len(translations_with_datetime) |-> InputTime(k)]
       = <<T1200, T0945, T0930, T0900>>
  /\ Len(sessions) = 2

\* ------------------------------------------------------------------------
\* Properties of the star counts
\* ------------------------------------------------------------------------
\* the number a stars_count cell shows
NumeralValue(cell) == CHOOSE n \in 0..9 : cell = <<DigitChars[n + 1]>>

\* the ids of the data rows of the sheet
DataIds(vals) == {vals[i].A : i \in 2..Len(vals)}

\* the star count stored for the translation id, which has a data row: the
\* number in column B of its row, 0 when the cell is empty
StoredStars(vals, id) ==
  LET i == CHOOSE j \in 2..Len(vals) : vals[j].A = id
  IN  IF vals[i].len > 1 THEN NumeralValue(vals[i].B) ELSE 0

\* no stars_count cell shows a negative number: a cell of column B is the
\* header text or a string of digits
NoNegativeCell ==
  \A i \in 1..Len(stars_values) :
    stars_values[i].len > 1 =>
      \/ stars_values[i].B = HEADER_ROW.B
      \/ IsDigitStr(stars_values[i].B)

\* while the store answers, an unstar request for a translation of the sheet
\* reads the stored count n and then stores and returns 0 if n = 0, n - 1 if
\* n > 0
UnstarStep(h) ==
  LET id == star_req[h].translation_id
      n  == star_req[h].current_count
  IN  (/\ store = "ok"
       /\ star_req[h].action = "unstar"
       /\ id \in DataIds(stars_values)) =>
        /\ (star_req[h].pc = "get_count" /\ star_req'[h].pc # "get_count")
             => star_req'[h].current_count = StoredStars(stars_values, id)
        /\ (star_req[h].pc = "write" /\ star_req'[h].pc # "write")
             => /\ StoredStars(stars_values', id) = (IF n = 0 THEN 0 ELSE n - 1)
                /\ star_req'[h].totalStars = (IF n = 0 THEN 0 ELSE n - 1)
                /\ star_req'[h].pc = "done"

\* C16: whatever star and unstar requests have run, no stored star count is
\* negative; decrement_star_count on a stored count of 0 stores and returns
\* 0, and on a stored count n > 0 stores and returns n - 1.
C16_NeverNegative ==
  /\ []NoNegativeCell
  /\ [][\A h \in StarHandlers : UnstarStep(h)]_vars

\* two unstar requests for the same translation, one after the other, took
\* its count from 1 to 0 and from 0 to 0
C16_Witness ==
  /\ stars_values0 = <<HEADER_AB, [A |-> IntToStr(1), B |-> CellOfInt(1), len |-> 2]>>
  /\ \A h \in 1..2 :
       /\ star_req[h].pc = "done"
       /\ star_req[h].action = "unstar"
       /\ star_req[h].translation_id = IntToStr(1)
       /\ star_req[h].totalStars = 0
  /\ star_req[1].current_count = 1
  /\ star_req[2].current_count = 0
  /\ StoredStars(stars_values, IntToStr(1)) = 0

\* the handlers that have completed a star request for the translation id
StarsCompleted(id) ==
  {h \in StarHandlers : /\ star_req[h].pc = "done"
                        /\ star_req[h].status = 200
                        /\ star_req[h].action = "star"
                        /\ star_req[h].translation_id = id}

\* C19: while the store answers, once every request has been answered, a
\* translation of the sheet that got N star requests and no unstar request
\* has its stored count raised by N, however the handlers interleaved.
C19_StarsAddUp ==
  \A id \in DataIds(stars_values0) :
    (/\ store = "ok"
     /\ \A h \in StarHandlers :
          /\ star_req[h].pc \in {"idle", "done"}
          /\ ~(star_req[h].action = "unstar" /\ star_req[h].translation_id = id))
    => StoredStars(stars_values, id)
         = StoredStars(stars_values0, id) + Cardinality(StarsCompleted(id))

\* ------------------------------------------------------------------------
\* Properties of the history list
\* ------------------------------------------------------------------------
\* the point in time a datetime cell names for the sort of the history: the
\* cell has to be in one of the formats as it stands; an empty cell and a
\* cell with blanks around the timestamp name none
HistoryTime(str) ==
  CASE str = STR_APP_0900 -> T0900
    [] str = STR_APP_0930 -> T0930
    [] str = STR_ISO_Z -> Expected(738900, 9 * 3600 + 30 * 60, TRUE)
    [] OTHER -> None

\* record a may stand directly before record b in the history
InHistoryOrder(a, b) ==
  \/ a.stars_count > b.stars_count
  \/ /\ a.stars_count = b.stars_count
     /\ LET ta == HistoryTime(a.datetime)
            tb == HistoryTime(b.datetime)
        IN  \/ IsNone(tb)
            \/ ~IsNone(ta) /\ SecondsOf(ta) >= SecondsOf(tb)

LacksRequiredParameter(data) ==
  /\ data.present
  /\ \/ IsNone(data.sourceForm) \/ data.sourceForm = JStr("")
     \/ IsNone(data.targetForm) \/ data.targetForm = JStr("")
     \/ /\ IsNone(data.sourceText) \/ data.sourceText = JStr("")
        /\ IsNone(data.inputText) \/ data.inputText = JStr("")

\* C18: a request whose body is an object lacking one of the required
\* parameters is answered with status 400 and the error "Missing required
\* parameters".
C18_MissingParameters400 ==
  (route_pc = "responded" /\ LacksRequiredParameter(request_body))
    => response = Response(400, "Missing required parameters")

\* ------------------------------------------------------------------------
\* Properties of the global sheets service
\* ------------------------------------------------------------------------
\* C20: whenever the initialization status says initialized, the global
\* sheets service is an instance whose sheet_id is the configured SHEET_ID,
\* and so is every instance get_sheets_service returns from then on.
C20_InitializedHasSheetId ==
  init_status.initialized =>
    /\ sheets_service # 0
    /\ instances[sheets_service].sheet_id = SHEET_ID

\* the rows of the history sheet that no longer show what they showed before
\* the first request
RowsWritten ==
  {i \in 1..Len(stars_values) : stars_values[i] # stars_values0[i]}

\* C21: whatever star and unstar requests have run, every row whose cells
\* were written is a data row (not row 1, the header) whose column A still
\* holds the translation id of a request that wrote.
C21_WritesOnlyDataRows ==
  \A i \in RowsWritten :
    /\ i > 1
    /\ stars_values[i].A = stars_values0[i].A
    /\ \E h \in StarHandlers : /\ star_req[h].pc = "done"
                               /\ star_req[h].row_number = i
                               /\ star_req[h].translation_id = stars_values[i].A

C22_BuilderNeverRaises ==
  ~(pc = "failed" /\ translations_with_datetime # <<>>)

\* ------------------------------------------------------------------------
\* Properties of the reporter
\* ------------------------------------------------------------------------
\* the one-to-one assignments of n rows to n sessions
RowAssignments(n) ==
  {f \in [1..n -> 1..n] : \A i, j \in 1..n : i # j => f[i] # f[j]}

\* the breakdown has one row for each emitted session, under the calendar
\* date of the session's start time
RowsMatchSessions ==
  /\ Len(breakdown) = Len(sessions)
  /\ \E f \in RowAssignments(Len(sessions)) :
       \A k \in 1..Len(sessions) :
         breakdown[f[k]] = BreakdownRow(DateOf(sessions[k].start_time), sessions[k])

\* row i stands before row j in the order of the display: a later date
\* first, and under one date the earlier start first
InDisplayOrder(i, j) ==
  \/ breakdown[i].date.ord > breakdown[j].date.ord
  \/ /\ breakdown[i].date.ord = breakdown[j].date.ord
     /\ breakdown[i].start_time <= breakdown[j].start_time

\* C23: once the breakdown is printed it has a row for every session under
\* the calendar date of the session's start time, the dates descend from row
\* to row, and under one date the start times ascend.
C23_BreakdownOrder ==
  pc \in {"listed", "complete"} =>
    /\ RowsMatchSessions
    /\ \A i, j \in 1..Len(breakdown) : i < j => InDisplayOrder(i, j)

\* a breakdown of three sessions: one of the later date first, then two of
\* the earlier date, the earlier start first
C23_Witness ==
  /\ pc = "listed"
  /\ Len(breakdown) = 3
  /\ breakdown[1].date.ord > breakdown[2].date.ord
  /\ breakdown[2].date.ord = breakdown[3].date.ord
  /\ breakdown[2].start_time < breakdown[3].start_time

\* the greatest and the least event count over the emitted sessions
MaxCount == CHOOSE n \in {sessions[k].count : k \in 1..Len(sessions)} :
              \A k \in 1..Len(sessions) : sessions[k].count <= n

MinCount == CHOOSE n \in {sessions[k].count : k \in 1..Len(sessions)} :
              \A k \in 1..Len(sessions) : sessions[k].count >= n

\* the first session of the emission order with the event count n
FirstWithCount(n) ==
  sessions[CHOOSE k \in 1..Len(sessions) :
             /\ sessions[k].count = n
             /\ \A j \in 1..(k - 1) : sessions[j].count # n]

\* C24: once the statistics are printed for a run with sessions, the session
\* reported as largest is the first session of the emission order with the
\* greatest event count, and the one reported as smallest the first with the
\* least event count.
C24_LargestSmallest ==
  (pc = "complete" /\ sessions # <<>>) =>
    /\ statistics.printed
    /\ statistics.max_session = FirstWithCount(MaxCount)
    /\ statistics.min_session = FirstWithCount(MinCount)

\* two sessions of different dates tie for the greatest count: the first
\* emitted one is reported although the breakdown lists the other first
C24_Witness ==
  /\ pc = "complete"
  /\ Len(sessions) >= 2
  /\ sessions[1].count = MaxCount
  /\ sessions[2].count = MaxCount
  /\ sessions[1].date # sessions[2].date
  /\ statistics.max_session = sessions[1]
  /\ breakdown[1].date = sessions[2].date

\* C25: from the return of the builder to the end of the run the list
\* sessions is the list the builder made of the parsed events: no session's
\* date, start_time, end_time, translations or count and no position in the
\* list has changed, and the lists grouped by date hold emitted sessions as
\* they are.
C25_SessionsReadOnly ==
  pc \in {"grouped", "summarised", "listed", "complete"} =>
    /\ sessions = group_translations_by_sessions(translations_with_datetime,
                                                 SESSION_GAP_MINUTES).value
    /\ \A d \in 1..Len(sessions_by_date) :
         \A k \in 1..Len(sessions_by_date[d].sessions) :
           \E e \in 1..Len(sessions) :
             sessions_by_date[d].sessions[k] = sessions[e]

\* a run of three sessions on two dates is complete: grouped, listed with the
\* later date first, statistics printed
C25_Witness ==
  /\ pc = "complete"
  /\ Len(sessions) = 3
  /\ Len(sessions_by_date) = 2
  /\ Len(breakdown) = 3
  /\ breakdown[1].date # sessions[1].date
  /\ statistics.printed

\* ------------------------------------------------------------------------
\* The two timestamp parsers compared
\* ------------------------------------------------------------------------
\* C26: for every record the loop has handled, the script's parser and the
\* parser of the history sort agree on its timestamp: the record is a parse
\* failure exactly when parse_datetime gives its sentinel datetime.min, and
\* otherwise the record is paired with the datetime parse_datetime gives.
C26_ParsersAgree ==
  \A k \in 1..idx :
    LET sort_time == parse_datetime(history_data[k].datetime)
    IN  IF sort_time = dt_min
        THEN FailuresFor(k) = 1
        ELSE \E e \in 1..Len(translations_with_datetime) :
               translations_with_datetime[e] = <<sort_time, history_data[k]>>

====
